---- MODULE Spec2Model ----
(***************************************************************************)
(* A model of shinbun's feed cache (src/src/cache.rs), query engine        *)
(* (src/src/query.rs), of the App's feed-update, refresh and read-state    *)
(* handlers (src/src/app.rs) and of the fetch orchestration                *)
(* (src/src/feeds.rs).                                                     *)
(*                                                                         *)
(* Encoding of values:                                                     *)
(*   - Option<T> / a nullable SQL column is a sequence of length 0 or 1:   *)
(*     None and NULL are <<>>, Some(x) and a non-NULL x are <<x>>.         *)
(*   - a `published` string is encoded by its rank in the lexicographic    *)
(*     order of strings: 0 is the empty string '', 1 < 2 < ... are         *)
(*     non-empty timestamps in increasing order.                           *)
(*   - a query string and a tag are sequences of one-character strings.    *)
(*   - the entries table is a set of rows; the rowid of an entry row is    *)
(*     never read by the program and is not part of a row.  The column     *)
(*     feeds.last_fetched (the wall clock) is not modelled.                *)
(*   - an Instant is the number of calls of Instant::now() made before it. *)
(***************************************************************************)
EXTENDS Integers, Sequences, FiniteSets, TLC

\* ------------------------------------------------------------------------
\* Bounds and input domains
\* ------------------------------------------------------------------------

\* Greatest number of entries in one feed handed to save_feed.
MaxBatchLen == 2

\* Greatest number of entries in one fetched feed of a FeedUpdate message.
MaxFetched == 1

\* Greatest number of runs of fetch_feed_with_progress started in a behaviour.
MaxRuns == 2

\* Greatest number of characters of a query string after its prefix.
MaxQueryLen == 3

Urls == {"u1", "u2"}

EntryTitles == {"a", "b"}

\* ------------------------------------------------------------------------
\* Option values
\* ------------------------------------------------------------------------

None == <<>>

Some(x) == <<x>>

\* The empty string '' as a published value.
EmptyStr == 0

\* COALESCE(published, '') of the unique index idx_entry_unique.
COALESCE(published) == IF published = None THEN EmptyStr ELSE published[1]

\* serde_json::to_string(v).unwrap_or_default()
to_string(v) == <<"json", v>>

\* serde_json::from_str(json) : the value, or None when json is not JSON.
from_str(json) ==
  IF Len(json) = 2 /\ json[1] = "json" THEN Some(json[2]) ELSE None

\* Option::unwrap_or(default)
unwrap_or(opt, default) == IF opt = None THEN default ELSE opt[1]

\* ------------------------------------------------------------------------
\* State
\* ------------------------------------------------------------------------

VARIABLES
  cache,      \* FeedCache: [feeds |-> set of feed rows, entries |-> set of entry rows]
  feeds,             \* App.feeds : Vec<Feed>
  display_feeds,     \* App.display_feeds : Vec<DisplayFeed>
  feed_index,        \* App.feed_index
  entry_list_state,  \* App.entry_list_state.selected() : Option<usize>
  state,             \* App.state : AppState
  loading_state,     \* App.loading_state : [is_loading, start_time, finish_time]
  current_feed,      \* App.current_feed : Option<String>
  feed_errors,       \* App.feed_errors : Vec<FeedError>
  show_error_popup,  \* App.show_error_popup
  clock,             \* the number of calls of Instant::now() made so far
  runs,              \* the runs of fetch_feed_with_progress started so far
  chan,              \* the FeedUpdate messages sent on feed_tx and not yet handled
  call_feeds,        \* the feeds handed to a call of the query engine
  call_query,        \* the query string handed to the call
  call_result,       \* the value the call returned (None before it returns)
  lastOp             \* the entry point of the last step: a cache call, the
                     \* variant of a handled FeedUpdate, or handle_key

appVars == <<feeds, display_feeds, feed_index, entry_list_state, state,
             loading_state, current_feed, feed_errors, show_error_popup>>

fetchVars == <<runs, chan>>

callVars == <<call_feeds, call_query, call_result>>

vars == <<cache, appVars, clock, fetchVars, callVars, lastOp>>

\* ------------------------------------------------------------------------
\* FeedCache (src/src/cache.rs)
\* ------------------------------------------------------------------------

\* The database after init_schema on a new file: both tables are empty.
init_schema == [feeds |-> {}, entries |-> {}]

Max(S) == CHOOSE m \in S : \A x \in S : x <= m

\* The rowid SQLite gives a row inserted into an INTEGER PRIMARY KEY table
\* without an explicit id: one more than the largest rowid in the table.
NewRowid(rows) == IF rows = {} THEN 1 ELSE Max({r.id : r \in rows}) + 1

\* SELECT id FROM feeds WHERE url = ?1   (None: no such row)
feed_id_of(c, url) ==
  IF \E r \in c.feeds : r.url = url
  THEN Some((CHOOSE r \in c.feeds : r.url = url).id)
  ELSE None

\* A variant of upsert_feed_row: INSERT OR REPLACE INTO feeds, which deletes
\* the row of the url (its entries go with it, ON DELETE CASCADE) and
\* inserts a new row under a new rowid.
upsert_feed_row_replace(c, feed, position) ==
  LET tags_json == IF feed.tags = None THEN None ELSE Some(to_string(feed.tags[1]))
      old == { r \in c.feeds : r.url = feed.url }
  IN  [feeds |-> (c.feeds \ old) \cup
                 { [id |-> NewRowid(c.feeds), url |-> feed.url, title |-> feed.title,
                    tags |-> tags_json, position |-> position] },
       entries |-> { e \in c.entries : \A r \in old : e.feed_id # r.id }]

\* INSERT INTO feeds ... ON CONFLICT(url) DO UPDATE SET title, last_fetched,
\* tags, position: the row of the url is updated in place, its id is kept.
upsert_feed_row(c, feed, position) ==
  LET tags_json == IF feed.tags = None THEN None ELSE Some(to_string(feed.tags[1]))
  IN  IF \E r \in c.feeds : r.url = feed.url
      THEN [c EXCEPT !.feeds =
              { IF r.url = feed.url
                THEN [r EXCEPT !.title = feed.title, !.tags = tags_json,
                               !.position = position]
                ELSE r : r \in c.feeds }]
      ELSE [c EXCEPT !.feeds = @ \cup
              { [id |-> NewRowid(c.feeds), url |-> feed.url, title |-> feed.title,
                 tags |-> tags_json, position |-> position] }]

\* A variant of conflict_rows: a unique index on the raw published column,
\* for which a NULL conflicts with nothing.
conflict_rows_raw(rows, feed_id, title, published) ==
  { r \in rows : /\ r.feed_id = feed_id
                 /\ r.title = title
                 /\ r.published # None /\ published # None
                 /\ r.published[1] = published[1] }

\* The rows that conflict with a new row on the unique index
\* idx_entry_unique ON entries(feed_id, title, COALESCE(published, '')).
conflict_rows(rows, feed_id, title, published) ==
  { r \in rows : /\ r.feed_id = feed_id
                 /\ r.title = title
                 /\ COALESCE(r.published) = COALESCE(published) }

\* A variant of upsert_entry: the conflict clause also writes read = 0.
upsert_entry_reset(rows, feed_id, entry) ==
  LET links_json == to_string(entry.links)
      hit == conflict_rows(rows, feed_id, entry.title, entry.published)
  IN  IF hit # {}
      THEN { IF r \in hit
             THEN [r EXCEPT !.text = entry.text, !.links = links_json,
                            !.media = entry.media, !.read = 0]
             ELSE r : r \in rows }
      ELSE rows \cup
           { [feed_id |-> feed_id, title |-> entry.title,
              published |-> entry.published, text |-> entry.text,
              links |-> links_json, media |-> entry.media, read |-> 0] }

\* A variant of upsert_entry: INSERT OR IGNORE, a stored entry keeps its
\* content.
upsert_entry_ignore(rows, feed_id, entry) ==
  LET links_json == to_string(entry.links)
      hit == conflict_rows(rows, feed_id, entry.title, entry.published)
  IN  IF hit # {} THEN rows
      ELSE rows \cup
           { [feed_id |-> feed_id, title |-> entry.title,
              published |-> entry.published, text |-> entry.text,
              links |-> links_json, media |-> entry.media, read |-> 0] }

\* INSERT INTO entries ... VALUES (..., 0) ON CONFLICT(feed_id, title,
\* COALESCE(published, '')) DO UPDATE SET text, links, media.
upsert_entry(rows, feed_id, entry) ==
  LET links_json == to_string(entry.links)
      hit == conflict_rows(rows, feed_id, entry.title, entry.published)
  IN  IF hit # {}
      THEN { IF r \in hit
             THEN [r EXCEPT !.text = entry.text, !.links = links_json,
                            !.media = entry.media]
             ELSE r : r \in rows }
      ELSE rows \cup
           { [feed_id |-> feed_id, title |-> entry.title,
              published |-> entry.published, text |-> entry.text,
              links |-> links_json, media |-> entry.media, read |-> 0] }

\* for entry in &feed.entries { upsert }
RECURSIVE upsert_entries(_, _, _)
upsert_entries(rows, feed_id, entries) ==
  IF entries = <<>> THEN rows
  ELSE upsert_entries(upsert_entry(rows, feed_id, Head(entries)), feed_id, Tail(entries))

\* FeedCache::save_feed returning Err from its statement number failed
\* (1: the upsert of the feed row, 2: the SELECT of its id, 2 + n: the upsert
\* of the n-th entry).  No transaction is opened: every statement executed
\* before the failing one is persisted, the failing one changes nothing.
save_feed_err(c, feed, position, failed) ==
  IF failed = 1 THEN c
  ELSE LET c1 == upsert_feed_row(c, feed, position)
           feed_id == feed_id_of(c1, feed.url)[1]
       IN  IF failed = 2 THEN c1
           ELSE [c1 EXCEPT !.entries =
                   upsert_entries(@, feed_id, SubSeq(feed.entries, 1, failed - 3))]

\* A variant of save_feed: the entries of the feed are deleted and the
\* fetched ones inserted.
save_feed_reinsert(c, feed, position) ==
  LET c1 == upsert_feed_row(c, feed, position)
      feed_id == feed_id_of(c1, feed.url)[1]
  IN  [c1 EXCEPT !.entries =
         upsert_entries({ r \in @ : r.feed_id # feed_id }, feed_id, feed.entries)]

\* FeedCache::save_feed with every statement succeeding.
save_feed(c, feed, position) ==
  LET c1 == upsert_feed_row(c, feed, position)
      feed_id == feed_id_of(c1, feed.url)[1]
  IN  [c1 EXCEPT !.entries = upsert_entries(@, feed_id, feed.entries)]

\* A variant of mark_where: the published values are compared after
\* COALESCE(published, ''), so that NULL and '' match each other.
mark_where_coalesce(c, r, feed_url, entry_title, published) ==
  /\ feed_id_of(c, feed_url) # None
  /\ r.feed_id = feed_id_of(c, feed_url)[1]
  /\ r.title = entry_title
  /\ COALESCE(r.published) = COALESCE(published)

\* WHERE feed_id = (SELECT id FROM feeds WHERE url = ?1) AND title = ?2
\*   AND (published = ?3 OR (published IS NULL AND ?3 IS NULL))
\* A comparison with NULL is not true, so `published = ?3` holds only when
\* both are non-NULL and equal.
mark_where(c, r, feed_url, entry_title, published) ==
  /\ feed_id_of(c, feed_url) # None
  /\ r.feed_id = feed_id_of(c, feed_url)[1]
  /\ r.title = entry_title
  /\ \/ (r.published # None /\ published # None /\ r.published[1] = published[1])
     \/ (r.published = None /\ published = None)

\* A variant of set_read: the WHERE clause lacks the title and published
\* conditions, every entry of the feed is updated.
set_read_feed(c, feed_url, entry_title, published, value) ==
  [c EXCEPT !.entries =
     { IF feed_id_of(c, feed_url) # None /\ r.feed_id = feed_id_of(c, feed_url)[1]
       THEN [r EXCEPT !.read = value] ELSE r : r \in c.entries }]

\* UPDATE entries SET read = <value> WHERE ...
set_read(c, feed_url, entry_title, published, value) ==
  [c EXCEPT !.entries =
     { IF mark_where(c, r, feed_url, entry_title, published)
       THEN [r EXCEPT !.read = value] ELSE r : r \in c.entries }]

\* FeedCache::mark_entry_read
mark_entry_read(c, feed_url, entry_title, published) ==
  set_read(c, feed_url, entry_title, published, 1)

\* FeedCache::mark_entry_unread
mark_entry_unread(c, feed_url, entry_title, published) ==
  set_read(c, feed_url, entry_title, published, 0)

\* The FeedEntry built from an entry row by load_feed / load_all_feeds.
row_to_entry(r) ==
  [title |-> r.title, published |-> r.published, text |-> r.text,
   links |-> unwrap_or(from_str(r.links), <<>>), media |-> r.media,
   feed_title |-> None, read |-> (r.read # 0)]

\* A variant of published_key: NULL sorts above every string.
published_key_null_high(published) == IF published = None THEN 1000 ELSE published[1]

\* The sort key of ORDER BY published: NULL sorts below every string.
published_key(published) == IF published = None THEN -1 ELSE published[1]

\* ORDER BY published DESC.  SQL leaves the order of rows with equal keys
\* unspecified: every sequence of the rows with non-increasing keys is a
\* possible result.
RECURSIVE order_by_published_desc(_)
order_by_published_desc(rows) ==
  IF rows = {} THEN {<<>>}
  ELSE LET top == Max({published_key(r.published) : r \in rows})
       IN  UNION { { <<r>> \o rest : rest \in order_by_published_desc(rows \ {r}) } :
                   r \in { x \in rows : published_key(x.published) = top } }

\* The entries of a feed row, as load_feed / load_all_feeds read them.
load_entries(c, feed_id) ==
  { [i \in 1..Len(rows) |-> row_to_entry(rows[i])] :
      rows \in order_by_published_desc({ r \in c.entries : r.feed_id = feed_id }) }

\* The Feed built from a feed row and its entries.
row_to_feed(r, entries) ==
  [url |-> r.url, title |-> r.title, entries |-> entries,
   tags |-> IF r.tags = None THEN None ELSE from_str(r.tags[1])]

\* FeedCache::load_feed : the possible results (each an Option<Feed>).
load_feed(c, url) ==
  IF feed_id_of(c, url) = None THEN {None}
  ELSE LET r == CHOOSE x \in c.feeds : x.url = url
       IN  { Some(row_to_feed(r, es)) : es \in load_entries(c, r.id) }

Min(S) == CHOOSE m \in S : \A x \in S : m <= x

\* ORDER BY position (ascending); rows with equal position in any order.
RECURSIVE order_by_position(_)
order_by_position(rows) ==
  IF rows = {} THEN {<<>>}
  ELSE LET low == Min({r.position : r \in rows})
       IN  UNION { { <<r>> \o rest : rest \in order_by_position(rows \ {r}) } :
                   r \in { x \in rows : x.position = low } }

\* The possible entry lists for each feed row of a sequence of feed rows.
RECURSIVE load_rows(_, _)
load_rows(c, frows) ==
  IF frows = <<>> THEN {<<>>}
  ELSE { <<row_to_feed(Head(frows), es)>> \o rest :
           es \in load_entries(c, Head(frows).id), rest \in load_rows(c, Tail(frows)) }

\* FeedCache::load_all_feeds : the possible results (each a Vec<Feed>).
load_all_feeds(c) ==
  UNION { load_rows(c, frows) : frows \in order_by_position(c.feeds) }

\* ------------------------------------------------------------------------
\* Query engine (src/src/query.rs)
\* ------------------------------------------------------------------------

\* QueryFilter::All and QueryFilter::Tags(tags)
All == [kind |-> "All", tags |-> <<>>]

Tags(tags) == [kind |-> "Tags", tags |-> tags]

\* str::trim : drop the white space at both ends.
RECURSIVE trim_start(_)
trim_start(str) ==
  IF str # <<>> /\ Head(str) = " " THEN trim_start(Tail(str)) ELSE str

RECURSIVE trim_end(_)
trim_end(str) ==
  IF str # <<>> /\ str[Len(str)] = " "
  THEN trim_end(SubSeq(str, 1, Len(str) - 1)) ELSE str

trim(str) == trim_end(trim_start(str))

\* str::strip_prefix : the rest of the string after the prefix, or None.
strip_prefix(str, prefix) ==
  IF Len(str) >= Len(prefix) /\ SubSeq(str, 1, Len(prefix)) = prefix
  THEN Some(SubSeq(str, Len(prefix) + 1, Len(str)))
  ELSE None

\* str::split(',') : the pieces between the commas (at least one piece).
RECURSIVE split(_, _)
split(str, sep) ==
  IF \A i \in 1..Len(str) : str[i] # sep THEN <<str>>
  ELSE LET i == CHOOSE k \in 1..Len(str) :
                  str[k] = sep /\ \A j \in 1..(k - 1) : str[j] # sep
       IN  <<SubSeq(str, 1, i - 1)>> \o split(SubSeq(str, i + 1, Len(str)), sep)

\* A variant of trimmed_non_empty: the empty pieces are kept.
RECURSIVE trimmed_pieces(_)
trimmed_pieces(pieces) ==
  IF pieces = <<>> THEN <<>>
  ELSE <<trim(Head(pieces))>> \o trimmed_pieces(Tail(pieces))

\* .map(|s| s.trim().to_string()).filter(|s| !s.is_empty())
RECURSIVE trimmed_non_empty(_)
trimmed_non_empty(pieces) ==
  IF pieces = <<>> THEN <<>>
  ELSE LET t == trim(Head(pieces))
       IN  (IF t = <<>> THEN <<>> ELSE <<t>>) \o trimmed_non_empty(Tail(pieces))

TagsPrefix == <<"t", "a", "g", "s", ":">>

\* A variant of parse_query: a query of no known form matches every feed.
parse_query_fail_open(query) ==
  LET q == trim(query)
  IN  IF q = <<>> \/ q = <<"*">> THEN All
      ELSE IF strip_prefix(q, TagsPrefix) # None
           THEN Tags(trimmed_non_empty(split(strip_prefix(q, TagsPrefix)[1], ",")))
           ELSE All

\* parse_query
parse_query(query) ==
  LET q == trim(query)
  IN  IF q = <<>> \/ q = <<"*">> THEN All
      ELSE IF strip_prefix(q, TagsPrefix) # None
           THEN Tags(trimmed_non_empty(split(strip_prefix(q, TagsPrefix)[1], ",")))
           ELSE Tags(<<>>)

\* A variant of feed_matches: the feed has every tag of the filter.
feed_matches_every_tag(feed, filter) ==
  IF filter.kind = "All" THEN TRUE
  ELSE IF filter.tags = <<>> THEN FALSE
       ELSE IF feed.tags # None
            THEN \A i \in 1..Len(filter.tags) :
                   \E j \in 1..Len(feed.tags[1]) : feed.tags[1][j] = filter.tags[i]
            ELSE FALSE

\* feed_matches
feed_matches(feed, filter) ==
  IF filter.kind = "All" THEN TRUE
  ELSE IF filter.tags = <<>> THEN FALSE
       ELSE IF feed.tags # None
            THEN \E i \in 1..Len(filter.tags) :
                   \E j \in 1..Len(feed.tags[1]) : feed.tags[1][j] = filter.tags[i]
            ELSE FALSE

\* The comparator of entries.sort_by: the Ordering of a relative to b.
compare_published(a, b) ==
  IF b.published # None /\ a.published # None
  THEN (IF b.published[1] < a.published[1] THEN "Less"
        ELSE IF b.published[1] > a.published[1] THEN "Greater" ELSE "Equal")
  ELSE IF b.published # None /\ a.published = None THEN "Less"
  ELSE IF b.published = None /\ a.published # None THEN "Greater"
  ELSE "Equal"

\* A variant of insert_sorted: x goes in front of the elements equal to it.
RECURSIVE insert_sorted_front(_, _)
insert_sorted_front(sorted, x) ==
  IF sorted = <<>> THEN <<x>>
  ELSE IF compare_published(x, Head(sorted)) \in {"Less", "Equal"} THEN <<x>> \o sorted
       ELSE <<Head(sorted)>> \o insert_sorted_front(Tail(sorted), x)

\* Insert x into a sorted list behind every element that is not greater.
RECURSIVE insert_sorted(_, _)
insert_sorted(sorted, x) ==
  IF sorted = <<>> THEN <<x>>
  ELSE IF compare_published(x, Head(sorted)) = "Less" THEN <<x>> \o sorted
       ELSE <<Head(sorted)>> \o insert_sorted(Tail(sorted), x)

\* slice::sort_by : a stable sort.
RECURSIVE sort_by(_)
sort_by(entries) ==
  IF entries = <<>> THEN <<>>
  ELSE insert_sorted(sort_by(SubSeq(entries, 1, Len(entries) - 1)), entries[Len(entries)])

\* The clones of the entries of the matching feeds, feed_title stamped.
RECURSIVE collect_entries(_, _)
collect_entries(feeds_, filter) ==
  IF feeds_ = <<>> THEN <<>>
  ELSE LET feed == Head(feeds_)
       IN  (IF feed_matches(feed, filter)
            THEN [i \in 1..Len(feed.entries) |->
                    [feed.entries[i] EXCEPT !.feed_title = Some(feed.title)]]
            ELSE <<>>)
           \o collect_entries(Tail(feeds_), filter)

\* apply_query
apply_query(feeds_, query) == sort_by(collect_entries(feeds_, parse_query(query)))

\* ------------------------------------------------------------------------
\* Inputs of the cache-level driver
\* ------------------------------------------------------------------------

\* A FeedEntry as the parser builds it (feed_title None, unread).
Entry(title, published, text, links, media) ==
  [title |-> title, published |-> published, text |-> text, links |-> links,
   media |-> media, feed_title |-> None, read |-> FALSE]

\* The entries offered to save_feed: an undated entry, an entry with the
\* same title and published '' (other content), a dated entry with the same
\* title, and an undated entry with another title.
EntryInputs ==
  { Entry("a", None, "x", <<>>, ""),
    Entry("a", Some(EmptyStr), "y", <<"l">>, "m"),
    Entry("a", Some(1), "x", <<>>, ""),
    Entry("b", None, "x", <<>>, "") }

\* The published values offered to mark_entry_read / mark_entry_unread.
PublishedInputs == {None, Some(EmptyStr), Some(1)}

\* All sequences over S of length at most n.
RECURSIVE SeqsUpTo(_, _)
SeqsUpTo(S, n) ==
  IF n = 0 THEN {<<>>}
  ELSE LET shorter == SeqsUpTo(S, n - 1)
       IN  shorter \cup { Append(q, x) : q \in { t \in shorter : Len(t) = n - 1 }, x \in S }

\* The (title, tags, position) triples of the calls of save_feed.
FeedHeads == { <<"T1", None, 0>>, <<"T2", Some(<< <<"b">> >>), 1>> }

\* The entry lists offered to save_feed for a url: every list for the first
\* url, no entry or the undated entry alone for the others.
EntryListInputs(u) ==
  IF u = "u1" THEN SeqsUpTo(EntryInputs, MaxBatchLen)
  ELSE {<<>>, <<Entry("a", None, "x", <<>>, "")>>}

\* The calls of save_feed made by the cache-level driver.
SaveCalls ==
  UNION { { [feed |-> [url |-> u, title |-> h[1], entries |-> es, tags |-> h[2]],
             position |-> h[3]] : h \in FeedHeads, es \in EntryListInputs(u) } :
          u \in Urls }

\* ------------------------------------------------------------------------
\* App (src/src/app.rs)
\* ------------------------------------------------------------------------

\* The configured feeds: the first with a display name, the second without
\* (its title is the one the parser finds in the fetched document).
feed_config ==
  << [link |-> "u1", name |-> Some("T1"), tags |-> Some(<< <<"b">> >>)],
     [link |-> "u2", name |-> None,       tags |-> Some(<< <<"b">> >>)] >>

\* The configured query feeds.
query_config ==
  << [name |-> "Q", query |-> <<"t", "a", "g", "s", ":", "b">>] >>

\* DisplayFeed::Regular(feed) and DisplayFeed::Query { name, entries }
Regular(feed) == [kind |-> "Regular", feed |-> feed]

Query(name, entries) == [kind |-> "Query", name |-> name, entries |-> entries]

\* DisplayFeed::entries
entries_of(display_feed) ==
  IF display_feed.kind = "Regular" THEN display_feed.feed.entries
  ELSE display_feed.entries

\* App::build_display_feeds
build_display_feeds(feeds_, qc) ==
  [i \in 1..Len(qc) |-> Query(qc[i].name, apply_query(feeds_, qc[i].query))]
  \o [i \in 1..Len(feeds_) |-> Regular(feeds_[i])]

\* LoadingState::new, start and stop
loading_new(now) == [is_loading |-> TRUE, start_time |-> now, finish_time |-> None]

loading_start(ls, now) ==
  [ls EXCEPT !.is_loading = TRUE, !.start_time = now, !.finish_time = None]

\* A variant of loading_stop: the finish time is recorded, the flag is kept.
loading_stop_flag_kept(ls, now) == [ls EXCEPT !.finish_time = Some(now)]

loading_stop(ls, now) == [ls EXCEPT !.is_loading = FALSE, !.finish_time = Some(now)]

\* The index (from 0) of the first element of a sequence that satisfies a
\* test, given as the set of the indices (from 1) that satisfy it.
first_of(indices) == IF indices = {} THEN None ELSE Some(Min(indices))

\* for (i, feed) in new_feeds.iter().enumerate() { cache.save_feed(feed, i) }
RECURSIVE save_all(_, _, _)
save_all(c, new_feeds, i) ==
  IF new_feeds = <<>> THEN c
  ELSE save_all(save_feed(c, Head(new_feeds), i), Tail(new_feeds), i + 1)

\* A variant of reload_all: the freshly parsed feeds are used as they are.
reload_all_fresh(c, new_feeds) == {new_feeds}

\* self.cache.load_all_feeds().unwrap_or(new_feeds), the load succeeding:
\* the possible new values of App.feeds.
reload_all(c, new_feeds) == load_all_feeds(c)

\* The entry matched in a list by (title, published): the first one.
find_entry(entries, title, published) ==
  first_of({ i \in 1..Len(entries) :
               entries[i].title = title /\ entries[i].published = published })

\* The feed with the first entry matching (title, published) set to `read`.
patch_feed(feed, title, published, read) ==
  LET hit == find_entry(feed.entries, title, published)
  IN  IF hit = None THEN feed
      ELSE [feed EXCEPT !.entries[hit[1]].read = read]

\* App::sync_read_state : the new feeds and display_feeds.
sync_read_state(feeds_, display_feeds_, feed_url, title, published, read) ==
  LET raw == first_of({ i \in 1..Len(feeds_) : feeds_[i].url = feed_url })
      source_feed_title == IF raw = None THEN None ELSE Some(feeds_[raw[1]].title)
      new_feeds == IF raw = None THEN feeds_
                   ELSE [feeds_ EXCEPT ![raw[1]] = patch_feed(@, title, published, read)]
      patch(df) ==
        IF df.kind = "Regular"
        THEN (IF df.feed.url = feed_url
              THEN Regular(patch_feed(df.feed, title, published, read))
              ELSE df)
        ELSE Query(df.name,
               [i \in 1..Len(df.entries) |->
                  LET entry == df.entries[i]
                      same_source == source_feed_title # None
                                     /\ entry.feed_title = source_feed_title
                  IN  IF same_source /\ entry.title = title /\ entry.published = published
                      THEN [entry EXCEPT !.read = read]
                      ELSE entry])
  IN  [feeds |-> new_feeds,
       display_feeds |-> [i \in 1..Len(display_feeds_) |-> patch(display_feeds_[i])]]

\* The entry selected in display_feeds (None: no such display feed or entry).
selected_entry(display_feeds_, feed_idx, entry_idx) ==
  IF feed_idx + 1 <= Len(display_feeds_)
     /\ entry_idx + 1 <= Len(entries_of(display_feeds_[feed_idx + 1]))
  THEN Some(entries_of(display_feeds_[feed_idx + 1])[entry_idx + 1])
  ELSE None

\* The url the cache is written under for an entry of display feed feed_idx.
owner_url(feeds_, display_feeds_, feed_idx, feed_title_opt) ==
  IF feed_idx + 1 > Len(display_feeds_) THEN None
  ELSE IF display_feeds_[feed_idx + 1].kind = "Regular"
       THEN Some(display_feeds_[feed_idx + 1].feed.url)
       ELSE IF feed_title_opt = None THEN None
            ELSE LET hit == first_of({ i \in 1..Len(feeds_) :
                                         feeds_[i].title = feed_title_opt[1] })
                 IN  IF hit = None THEN None ELSE Some(feeds_[hit[1]].url)

\* ------------------------------------------------------------------------
\* Inputs of the App-level driver
\* ------------------------------------------------------------------------

\* The titles the parser finds in a fetched document.
ParsedTitles == {"T1", "T2"}

\* The entries the parser finds in a fetched document (all unread): an
\* undated and a dated entry for the first configured feed, the undated
\* entry alone for the others.
FetchedEntries(fc) ==
  IF fc.link = "u1"
  THEN { Entry("a", None, "x", <<>>, ""), Entry("a", Some(1), "x", <<>>, "") }
  ELSE { Entry("a", None, "x", <<>>, "") }

\* parse_single_feed : the feeds that can be parsed for a configured feed.
FetchedFeeds(fc) ==
  { [url |-> fc.link, title |-> t, entries |-> es, tags |-> fc.tags] :
      t \in (IF fc.name # None THEN {fc.name[1]} ELSE ParsedTitles),
      es \in SeqsUpTo(FetchedEntries(fc), MaxFetched) }

\* The batches of a Replace message: for every configured feed, in the
\* order of the configuration, either nothing (it failed) or a parsed feed.
RECURSIVE Batches(_)
Batches(config) ==
  IF config = <<>> THEN {<<>>}
  ELSE LET rest == Batches(Tail(config))
       IN  rest \cup { <<f>> \o r : f \in FetchedFeeds(Head(config)), r \in rest }

\* A variant of display_name: always the link.
display_name_link(fc) == fc.link

\* The display name of a configured feed: its name, else its link.
display_name(fc) == unwrap_or(fc.name, fc.link)

\* ------------------------------------------------------------------------
\* Initial state: a new database, and the App built by App::new from the
\* feeds loaded from it.
\* ------------------------------------------------------------------------

\* No call of the query engine is being followed.
no_call ==
  /\ call_feeds = <<>>
  /\ call_query = <<>>
  /\ call_result = None

\* App::new(feeds, ..) on the cache c, feeds being the feeds loaded from c.
App_new(c) ==
  /\ cache = c
  /\ feeds \in load_all_feeds(c)
  /\ display_feeds = build_display_feeds(feeds, query_config)
  /\ feed_index = 0
  /\ entry_list_state = None
  /\ state = "BrowsingFeeds"
  /\ loading_state = (IF feeds = <<>> THEN loading_new(0)
                      ELSE loading_stop(loading_new(0), 1))
  /\ clock = (IF feeds = <<>> THEN 1 ELSE 2)
  /\ current_feed = None
  /\ feed_errors = <<>>
  /\ show_error_popup = FALSE
  /\ lastOp = "new"

Init ==
  /\ App_new(init_schema)
  /\ runs = <<>>
  /\ chan = <<>>
  /\ no_call

\* ------------------------------------------------------------------------
\* Cache-level specification: any sequence of save_feed, mark_entry_read and
\* mark_entry_unread calls on a new database.
\* ------------------------------------------------------------------------

SaveFeed ==
  \E call \in SaveCalls :
    /\ cache' = save_feed(cache, call.feed, call.position)
    /\ lastOp' = "save_feed"
    /\ UNCHANGED callVars
    /\ UNCHANGED <<appVars, clock, fetchVars>>

MarkEntryRead ==
  \E u \in Urls, t \in EntryTitles, p \in PublishedInputs :
    /\ cache' = mark_entry_read(cache, u, t, p)
    /\ lastOp' = "mark_entry_read"
    /\ UNCHANGED callVars
    /\ UNCHANGED <<appVars, clock, fetchVars>>

MarkEntryUnread ==
  \E u \in Urls, t \in EntryTitles, p \in PublishedInputs :
    /\ cache' = mark_entry_unread(cache, u, t, p)
    /\ lastOp' = "mark_entry_unread"
    /\ UNCHANGED callVars
    /\ UNCHANGED <<appVars, clock, fetchVars>>

Next == SaveFeed \/ MarkEntryRead \/ MarkEntryUnread

Spec == Init /\ [][Next]_vars

\* ------------------------------------------------------------------------
\* Cache fault specification: the calls of the cache, a call of save_feed
\* returning Err from any of its statements.
\* ------------------------------------------------------------------------

SaveFeedFailed ==
  \E call \in SaveCalls : \E failed \in 1..(2 + Len(call.feed.entries)) :
    /\ cache' = save_feed_err(cache, call.feed, call.position, failed)
    /\ lastOp' = "save_feed_failed"
    /\ UNCHANGED callVars
    /\ UNCHANGED <<appVars, clock, fetchVars>>

CacheFaultNext == SaveFeed \/ SaveFeedFailed \/ MarkEntryRead \/ MarkEntryUnread

CacheFaultSpec == Init /\ [][CacheFaultNext]_vars

\* ------------------------------------------------------------------------
\* App-level specification: any sequence of Replace and UpdateFeed messages
\* and of key presses (up, down, enter, back, toggle read) handled by the App.
\* ------------------------------------------------------------------------

\* handle_feed_update(FeedUpdate::Replace(new_feeds)) : the App's fields.
on_Replace(new_feeds) ==
  /\ cache' = save_all(cache, new_feeds, 0)
  /\ feeds' \in reload_all(cache', new_feeds)
  /\ display_feeds' = build_display_feeds(feeds', query_config)
  /\ UNCHANGED <<feed_index, entry_list_state, state, loading_state,
                 current_feed, feed_errors, show_error_popup, clock>>

\* handle_feed_update(FeedUpdate::Replace(new_feeds)), any batch.
Replace ==
  \E new_feeds \in Batches(feed_config) :
    /\ on_Replace(new_feeds)
    /\ lastOp' = "Replace"
    /\ UNCHANGED callVars
    /\ UNCHANGED fetchVars

\* A variant of UpdateFeed: the freshly parsed feed takes the place of the
\* feed in memory.
UpdateFeed_fresh ==
  \E k \in 1..Len(feed_config) : \E feed \in FetchedFeeds(feed_config[k]) :
    LET known == first_of({ i \in 1..Len(feeds) : feeds[i].url = feed.url })
        position == IF known = None THEN Len(feeds) ELSE known[1] - 1
    IN  /\ cache' = save_feed(cache, feed, position)
        /\ IF known # None
           THEN /\ feeds' = [feeds EXCEPT ![known[1]] = feed]
                /\ display_feeds' = build_display_feeds(feeds', query_config)
           ELSE UNCHANGED <<feeds, display_feeds>>
        /\ lastOp' = "UpdateFeed"
        /\ UNCHANGED callVars
        /\ UNCHANGED <<show_error_popup, clock, fetchVars>>
        /\ UNCHANGED <<feed_index, entry_list_state, state, loading_state,
                       current_feed, feed_errors>>

\* handle_feed_update(FeedUpdate::UpdateFeed(_, feed))
UpdateFeed ==
  \E k \in 1..Len(feed_config) : \E feed \in FetchedFeeds(feed_config[k]) :
    LET known == first_of({ i \in 1..Len(feeds) : feeds[i].url = feed.url })
        position == IF known = None THEN Len(feeds) ELSE known[1] - 1
    IN  /\ cache' = save_feed(cache, feed, position)
        /\ \E loaded \in load_feed(cache', feed.url) :
             LET reloaded == unwrap_or(loaded, feed)
                 existing == first_of({ i \in 1..Len(feeds) : feeds[i].url = reloaded.url })
             IN  IF existing # None
                 THEN /\ feeds' = [feeds EXCEPT ![existing[1]] = reloaded]
                      /\ display_feeds' = build_display_feeds(feeds', query_config)
                 ELSE UNCHANGED <<feeds, display_feeds>>
        /\ lastOp' = "UpdateFeed"
        /\ UNCHANGED callVars
        /\ UNCHANGED <<show_error_popup, clock, fetchVars>>
        /\ UNCHANGED <<feed_index, entry_list_state, state, loading_state,
                       current_feed, feed_errors>>

\* ------------------------------------------------------------------------
\* Fetch orchestration (src/src/feeds.rs) and the channel feed_tx
\* ------------------------------------------------------------------------

\* The document fetched and parsed for a configured feed in a run: the
\* configured name or the second parsed title, and one undated entry.
SampleFeed(fc) ==
  [url |-> fc.link, title |-> unwrap_or(fc.name, "T2"),
   entries |-> << Entry("a", None, "x", <<>>, "") >>, tags |-> fc.tags]

\* parse_single_feed returning Some(feed) in a run.
RunFeeds(fc) == { SampleFeed(fc) }

\* The error texts of a FeedError: the parse failed, the fetch failed.
FetchErrors == { "Failed to parse feed", "Failed to fetch" }

\* fetch_feed_with_progress(feeds, tx) after its first loop: one task is
\* spawned per configured feed and none has run yet; the orchestrator is
\* about to await the first task.
spawn_run(config) ==
  [feeds |-> config,
   pc |-> [k \in 1..Len(config) |-> "spawned"],
   result |-> [k \in 1..Len(config) |-> None],
   joined |-> 0,
   feed_list |-> <<>>,
   stage |-> "joining"]

\* A run whose FetchComplete has been handled.
handled_run ==
  [feeds |-> <<>>, pc |-> <<>>, result |-> <<>>, joined |-> 0,
   feed_list |-> <<>>, stage |-> "handled"]

\* A run is in flight from its start until its FetchComplete is handled.
in_flight(run) == run.stage # "handled"

\* A task starts: tx_clone.send(FeedUpdate::FetchingFeed(feed_name)).
TaskFetchingFeed ==
  \E r \in DOMAIN runs : \E k \in DOMAIN runs[r].pc :
    /\ runs[r].pc[k] = "spawned"
    /\ runs' = [runs EXCEPT ![r].pc[k] = "fetching"]
    /\ chan' = Append(chan, [type |-> "FetchingFeed", run |-> r,
                             name |-> display_name(runs[r].feeds[k])])
    /\ lastOp' = "task"
    /\ UNCHANGED callVars
    /\ UNCHANGED <<cache, appVars, clock>>

\* A variant of TaskParsed: the task saves the parsed feed itself.
TaskParsed_saves ==
  \E r \in DOMAIN runs : \E k \in DOMAIN runs[r].pc :
    \E feed \in RunFeeds(runs[r].feeds[k]) :
      /\ runs[r].pc[k] = "fetching"
      /\ runs' = [runs EXCEPT ![r].pc[k] = "done", ![r].result[k] = Some(feed)]
      /\ cache' = save_feed(cache, feed, k - 1)
      /\ lastOp' = "task"
      /\ UNCHANGED callVars
      /\ UNCHANGED <<appVars, clock, chan>>

\* A task ends with Some(feed): the fetch and the parse succeeded.
TaskParsed ==
  \E r \in DOMAIN runs : \E k \in DOMAIN runs[r].pc :
    \E feed \in RunFeeds(runs[r].feeds[k]) :
      /\ runs[r].pc[k] = "fetching"
      /\ runs' = [runs EXCEPT ![r].pc[k] = "done", ![r].result[k] = Some(feed)]
      /\ lastOp' = "task"
      /\ UNCHANGED callVars
      /\ UNCHANGED <<cache, appVars, clock, chan>>

\* A task ends with None: the fetch or the parse failed and a FeedError
\* is sent.
TaskFailed ==
  \E r \in DOMAIN runs : \E k \in DOMAIN runs[r].pc : \E error \in FetchErrors :
    /\ runs[r].pc[k] = "fetching"
    /\ runs' = [runs EXCEPT ![r].pc[k] = "done", ![r].result[k] = None]
    /\ chan' = Append(chan, [type |-> "FeedError", run |-> r,
                             name |-> display_name(runs[r].feeds[k]),
                             error |-> error])
    /\ lastOp' = "task"
    /\ UNCHANGED callVars
    /\ UNCHANGED <<cache, appVars, clock>>

\* A variant of Join: the tasks are awaited from the last to the first.
Join_last_first ==
  \E r \in DOMAIN runs :
    LET k == Len(runs[r].pc) - runs[r].joined
    IN  /\ runs[r].stage = "joining"
        /\ k >= 1
        /\ runs[r].pc[k] = "done"
        /\ runs' = [runs EXCEPT
                      ![r].joined = @ + 1,
                      ![r].feed_list = IF runs[r].result[k] = None THEN @
                                       ELSE Append(@, runs[r].result[k][1])]
        /\ lastOp' = "orchestrator"
        /\ UNCHANGED callVars
        /\ UNCHANGED <<cache, appVars, clock, chan>>

\* A variant of Join: the orchestrator goes on only when the awaited task
\* has ended with Some(feed).
Join_awaits_feed ==
  \E r \in DOMAIN runs :
    LET k == runs[r].joined + 1
    IN  /\ runs[r].stage = "joining"
        /\ k <= Len(runs[r].pc)
        /\ runs[r].pc[k] = "done"
        /\ runs[r].result[k] # None
        /\ runs' = [runs EXCEPT
                      ![r].joined = k,
                      ![r].feed_list = Append(@, runs[r].result[k][1])]
        /\ lastOp' = "orchestrator"
        /\ UNCHANGED callVars
        /\ UNCHANGED <<cache, appVars, clock, chan>>

\* A variant of Join: once a task has failed, the feeds of the tasks after
\* it are not pushed.
Join_until_failure ==
  \E r \in DOMAIN runs :
    LET k == runs[r].joined + 1
    IN  /\ runs[r].stage = "joining"
        /\ k <= Len(runs[r].pc)
        /\ runs[r].pc[k] = "done"
        /\ runs' = [runs EXCEPT
                      ![r].joined = k,
                      ![r].feed_list =
                         IF \E k2 \in 1..k : runs[r].result[k2] = None THEN @
                         ELSE Append(@, runs[r].result[k][1])]
        /\ lastOp' = "orchestrator"
        /\ UNCHANGED callVars
        /\ UNCHANGED <<cache, appVars, clock, chan>>

\* for task in tasks { if let Ok(Some(feed)) = task.await { feed_list.push(feed) } }
Join ==
  \E r \in DOMAIN runs :
    LET k == runs[r].joined + 1
    IN  /\ runs[r].stage = "joining"
        /\ k <= Len(runs[r].pc)
        /\ runs[r].pc[k] = "done"
        /\ runs' = [runs EXCEPT
                      ![r].joined = k,
                      ![r].feed_list = IF runs[r].result[k] = None THEN @
                                       ELSE Append(@, runs[r].result[k][1])]
        /\ lastOp' = "orchestrator"
        /\ UNCHANGED callVars
        /\ UNCHANGED <<cache, appVars, clock, chan>>

\* A variant of SendReplace: the batch is sent as soon as the first task is
\* joined, and no later task is awaited.
SendReplace_early ==
  \E r \in DOMAIN runs :
    /\ runs[r].stage = "joining"
    /\ runs[r].joined >= 1 \/ Len(runs[r].pc) = 0
    /\ runs' = [runs EXCEPT ![r].stage = "replace_sent"]
    /\ chan' = Append(chan, [type |-> "Replace", run |-> r,
                             feeds |-> runs[r].feed_list])
    /\ lastOp' = "orchestrator"
    /\ UNCHANGED callVars
    /\ UNCHANGED <<cache, appVars, clock>>

\* tx.send(FeedUpdate::Replace(feed_list))
SendReplace ==
  \E r \in DOMAIN runs :
    /\ runs[r].stage = "joining"
    /\ runs[r].joined = Len(runs[r].pc)
    /\ runs' = [runs EXCEPT ![r].stage = "replace_sent"]
    /\ chan' = Append(chan, [type |-> "Replace", run |-> r,
                             feeds |-> runs[r].feed_list])
    /\ lastOp' = "orchestrator"
    /\ UNCHANGED callVars
    /\ UNCHANGED <<cache, appVars, clock>>

\* tx.send(FeedUpdate::FetchComplete)
SendFetchComplete ==
  \E r \in DOMAIN runs :
    /\ runs[r].stage = "replace_sent"
    /\ runs' = [runs EXCEPT ![r].stage = "complete_sent"]
    /\ chan' = Append(chan, [type |-> "FetchComplete", run |-> r])
    /\ lastOp' = "orchestrator"
    /\ UNCHANGED callVars
    /\ UNCHANGED <<cache, appVars, clock>>

\* handle_feed_update(FeedUpdate::Replace(new_feeds)), the message taken
\* from the channel.
ReplaceFromRun ==
  /\ chan # <<>>
  /\ Head(chan).type = "Replace"
  /\ on_Replace(Head(chan).feeds)
  /\ chan' = Tail(chan)
  /\ lastOp' = "Replace"
  /\ UNCHANGED callVars
  /\ UNCHANGED runs

\* handle_feed_update(FeedUpdate::FetchingFeed(name))
FetchingFeed ==
  /\ chan # <<>>
  /\ Head(chan).type = "FetchingFeed"
  /\ current_feed' = Some(Head(chan).name)
  /\ chan' = Tail(chan)
  /\ lastOp' = "FetchingFeed"
  /\ UNCHANGED callVars
  /\ UNCHANGED <<cache, feeds, display_feeds, feed_index, entry_list_state,
                 state, loading_state, feed_errors, show_error_popup, clock, runs>>

\* handle_feed_update(FeedUpdate::FeedError { name, error })
FeedError ==
  /\ chan # <<>>
  /\ Head(chan).type = "FeedError"
  /\ feed_errors' = Append(feed_errors,
                           [name |-> Head(chan).name, error |-> Head(chan).error])
  /\ chan' = Tail(chan)
  /\ lastOp' = "FeedError"
  /\ UNCHANGED callVars
  /\ UNCHANGED <<cache, feeds, display_feeds, feed_index, entry_list_state,
                 state, loading_state, current_feed, show_error_popup, clock, runs>>

\* handle_feed_update(FeedUpdate::FetchComplete); the run that sent the
\* message is no longer in flight.
FetchComplete ==
  /\ chan # <<>>
  /\ Head(chan).type = "FetchComplete"
  /\ loading_state' = loading_stop(loading_state, clock)
  /\ clock' = clock + 1
  /\ current_feed' = None
  /\ chan' = Tail(chan)
  /\ runs' = [runs EXCEPT ![Head(chan).run] = handled_run]
  /\ lastOp' = "FetchComplete"
  /\ UNCHANGED callVars
  /\ UNCHANGED <<cache, feeds, display_feeds, feed_index, entry_list_state,
                 state, feed_errors, show_error_popup>>

\* A variant of refresh_feeds without the test of is_loading.
refresh_feeds_always ==
  /\ ~show_error_popup
  /\ Len(runs) < MaxRuns
  /\ loading_state' = loading_start(loading_state, clock)
  /\ clock' = clock + 1
  /\ feed_errors' = <<>>
  /\ show_error_popup' = FALSE
  /\ runs' = Append(runs, spawn_run(feed_config))
  /\ lastOp' = "refresh_feeds"
  /\ UNCHANGED callVars
  /\ UNCHANGED <<cache, feeds, display_feeds, feed_index, entry_list_state,
                 state, current_feed, chan>>

\* App::handle_key for the key 'r' : App::refresh_feeds.
refresh_feeds ==
  /\ ~show_error_popup
  /\ IF loading_state.is_loading
     THEN UNCHANGED <<loading_state, clock, feed_errors, show_error_popup, runs>>
     ELSE /\ Len(runs) < MaxRuns
          /\ loading_state' = loading_start(loading_state, clock)
          /\ clock' = clock + 1
          /\ feed_errors' = <<>>
          /\ show_error_popup' = FALSE
          /\ runs' = Append(runs, spawn_run(feed_config))
  /\ lastOp' = "refresh_feeds"
  /\ UNCHANGED callVars
  /\ UNCHANGED <<cache, feeds, display_feeds, feed_index, entry_list_state,
                 state, current_feed, chan>>

\* A variant of handle_errors_key: the popup is shown whether there are
\* errors or not.
handle_errors_key_always ==
  /\ ~show_error_popup
  /\ show_error_popup' = ~show_error_popup
  /\ lastOp' = "handle_key"
  /\ UNCHANGED callVars
  /\ UNCHANGED <<cache, feeds, display_feeds, feed_index, entry_list_state, state,
                 loading_state, current_feed, feed_errors, clock, fetchVars>>

\* App::handle_key for the key 'e' : show the error popup when there are
\* errors.
handle_errors_key ==
  /\ ~show_error_popup
  /\ show_error_popup' = (IF feed_errors # <<>> THEN ~show_error_popup
                          ELSE show_error_popup)
  /\ lastOp' = "handle_key"
  /\ UNCHANGED callVars
  /\ UNCHANGED <<cache, feeds, display_feeds, feed_index, entry_list_state, state,
                 loading_state, current_feed, feed_errors, clock, fetchVars>>

\* App::handle_key while the error popup is shown: Esc, 'e' and Enter close
\* it, every other key is ignored.
handle_key_popup ==
  /\ show_error_popup
  /\ \E closes \in BOOLEAN : show_error_popup' = ~closes
  /\ lastOp' = "handle_key"
  /\ UNCHANGED callVars
  /\ UNCHANGED <<cache, feeds, display_feeds, feed_index, entry_list_state, state,
                 loading_state, current_feed, feed_errors, clock, fetchVars>>

\* App::handle_up
handle_up ==
  /\ ~show_error_popup
  /\ CASE state = "BrowsingFeeds" ->
            /\ feed_index' = (IF feed_index > 0 THEN feed_index - 1 ELSE feed_index)
            /\ UNCHANGED entry_list_state
       [] state = "BrowsingEntries" ->
            /\ entry_list_state' =
                 (IF entry_list_state # None /\ entry_list_state[1] > 0
                  THEN Some(entry_list_state[1] - 1) ELSE entry_list_state)
            /\ UNCHANGED feed_index
       [] OTHER -> UNCHANGED <<feed_index, entry_list_state>>
  /\ lastOp' = "handle_key"
  /\ UNCHANGED callVars
  /\ UNCHANGED <<show_error_popup, clock, fetchVars>>
  /\ UNCHANGED <<cache, feeds, display_feeds, state, loading_state,
                 current_feed, feed_errors>>

\* App::handle_down
handle_down ==
  /\ ~show_error_popup
  /\ CASE state = "BrowsingFeeds" ->
            /\ feed_index' = (IF feed_index + 1 < Len(display_feeds)
                              THEN feed_index + 1 ELSE feed_index)
            /\ UNCHANGED entry_list_state
       [] state = "BrowsingEntries" ->
            /\ entry_list_state' =
                 (IF /\ entry_list_state # None
                     /\ feed_index + 1 <= Len(display_feeds)
                     /\ entry_list_state[1] + 1
                          < Len(entries_of(display_feeds[feed_index + 1]))
                  THEN Some(entry_list_state[1] + 1) ELSE entry_list_state)
            /\ UNCHANGED feed_index
       [] OTHER -> UNCHANGED <<feed_index, entry_list_state>>
  /\ lastOp' = "handle_key"
  /\ UNCHANGED callVars
  /\ UNCHANGED <<show_error_popup, clock, fetchVars>>
  /\ UNCHANGED <<cache, feeds, display_feeds, state, loading_state,
                 current_feed, feed_errors>>

\* A variant of mark_selected_entry_read: Enter flips the flag of the selected
\* entry, whether or not it is read already.
mark_selected_entry_read_flip(c, feeds_, display_feeds_, feed_idx, entry_idx) ==
  LET info == selected_entry(display_feeds_, feed_idx, entry_idx)
      same == [cache |-> c, feeds |-> feeds_, display_feeds |-> display_feeds_]
  IN  IF info = None THEN same
      ELSE LET feed_url == owner_url(feeds_, display_feeds_, feed_idx, info[1].feed_title)
               new_read == ~info[1].read
           IN  IF feed_url = None THEN same
               ELSE LET synced == sync_read_state(feeds_, display_feeds_, feed_url[1],
                                     info[1].title, info[1].published, new_read)
                    IN  [cache |-> IF new_read
                                   THEN mark_entry_read(c, feed_url[1], info[1].title,
                                                        info[1].published)
                                   ELSE mark_entry_unread(c, feed_url[1], info[1].title,
                                                          info[1].published),
                         feeds |-> synced.feeds,
                         display_feeds |-> synced.display_feeds]

\* App::mark_selected_entry_read with the cache write succeeding: the new
\* cache, feeds and display_feeds.
mark_selected_entry_read(c, feeds_, display_feeds_, feed_idx, entry_idx) ==
  LET info == selected_entry(display_feeds_, feed_idx, entry_idx)
      same == [cache |-> c, feeds |-> feeds_, display_feeds |-> display_feeds_]
  IN  IF info = None THEN same
      ELSE IF info[1].read THEN same
      ELSE LET feed_url == owner_url(feeds_, display_feeds_, feed_idx, info[1].feed_title)
           IN  IF feed_url = None THEN same
               ELSE LET synced == sync_read_state(feeds_, display_feeds_, feed_url[1],
                                     info[1].title, info[1].published, TRUE)
                    IN  [cache |-> mark_entry_read(c, feed_url[1], info[1].title,
                                                   info[1].published),
                         feeds |-> synced.feeds,
                         display_feeds |-> synced.display_feeds]

\* App::toggle_selected_entry_read with the cache write succeeding.
toggle_selected_entry_read(c, feeds_, display_feeds_, feed_idx, entry_idx) ==
  LET info == selected_entry(display_feeds_, feed_idx, entry_idx)
      same == [cache |-> c, feeds |-> feeds_, display_feeds |-> display_feeds_]
  IN  IF info = None THEN same
      ELSE LET feed_url == owner_url(feeds_, display_feeds_, feed_idx, info[1].feed_title)
               new_read == ~info[1].read
           IN  IF feed_url = None THEN same
               ELSE LET synced == sync_read_state(feeds_, display_feeds_, feed_url[1],
                                     info[1].title, info[1].published, new_read)
                    IN  [cache |-> IF new_read
                                   THEN mark_entry_read(c, feed_url[1], info[1].title,
                                                        info[1].published)
                                   ELSE mark_entry_unread(c, feed_url[1], info[1].title,
                                                          info[1].published),
                         feeds |-> synced.feeds,
                         display_feeds |-> synced.display_feeds]

\* App::handle_enter
handle_enter ==
  /\ ~show_error_popup
  /\ CASE state = "BrowsingFeeds" ->
            /\ state' = "BrowsingEntries"
            /\ entry_list_state' = Some(0)
            /\ UNCHANGED <<cache, feeds, display_feeds>>
       [] state = "BrowsingEntries" ->
            /\ LET r == IF entry_list_state # None
                        THEN mark_selected_entry_read(cache, feeds, display_feeds,
                                                      feed_index, entry_list_state[1])
                        ELSE [cache |-> cache, feeds |-> feeds,
                              display_feeds |-> display_feeds]
               IN  /\ cache' = r.cache
                   /\ feeds' = r.feeds
                   /\ display_feeds' = r.display_feeds
            /\ state' = "ViewingEntry"
            /\ UNCHANGED entry_list_state
       [] OTHER -> UNCHANGED <<cache, feeds, display_feeds, state, entry_list_state>>
  /\ lastOp' = "handle_key"
  /\ UNCHANGED callVars
  /\ UNCHANGED <<show_error_popup, clock, fetchVars>>
  /\ UNCHANGED <<feed_index, loading_state, current_feed, feed_errors>>

\* App::handle_back
handle_back ==
  /\ ~show_error_popup
  /\ state' = (CASE state = "ViewingEntry" -> "BrowsingEntries"
                 [] state = "BrowsingEntries" -> "BrowsingFeeds"
                 [] OTHER -> state)
  /\ lastOp' = "handle_key"
  /\ UNCHANGED callVars
  /\ UNCHANGED <<show_error_popup, clock, fetchVars>>
  /\ UNCHANGED <<cache, feeds, display_feeds, feed_index, entry_list_state,
                 loading_state, current_feed, feed_errors>>

\* App::handle_key for the key 'm' : toggle the selected entry.
handle_toggle ==
  /\ ~show_error_popup
  /\ IF state \in {"BrowsingEntries", "ViewingEntry"} /\ entry_list_state # None
     THEN LET r == toggle_selected_entry_read(cache, feeds, display_feeds,
                                              feed_index, entry_list_state[1])
          IN  /\ cache' = r.cache
              /\ feeds' = r.feeds
              /\ display_feeds' = r.display_feeds
     ELSE UNCHANGED <<cache, feeds, display_feeds>>
  /\ lastOp' = "handle_key"
  /\ UNCHANGED callVars
  /\ UNCHANGED <<show_error_popup, clock, fetchVars>>
  /\ UNCHANGED <<feed_index, entry_list_state, state, loading_state,
                 current_feed, feed_errors>>

AppNext ==
  \/ Replace
  \/ UpdateFeed
  \/ handle_up
  \/ handle_down
  \/ handle_enter
  \/ handle_back
  \/ handle_toggle

AppSpec == Init /\ [][AppNext]_vars

\* ------------------------------------------------------------------------
\* App-level specification with a failing store: as AppSpec, and the cache
\* write of a read-state change (mark_entry_read, mark_entry_unread) may
\* return an error.
\* ------------------------------------------------------------------------

\* The handler reaches its cache write for the entry entry_idx of the
\* display feed feed_idx: the entry exists, the owner's url is found and,
\* for mark_selected_entry_read (skip_read), the entry is not read already.
write_attempted(feeds_, display_feeds_, feed_idx, entry_idx, skip_read) ==
  LET info == selected_entry(display_feeds_, feed_idx, entry_idx)
  IN  /\ info # None
      /\ ~(skip_read /\ info[1].read)
      /\ owner_url(feeds_, display_feeds_, feed_idx, info[1].feed_title) # None

\* App::handle_enter in BrowsingEntries, mark_entry_read returning an error:
\* mark_selected_entry_read logs it and returns before sync_read_state.
handle_enter_failed ==
  /\ ~show_error_popup
  /\ state = "BrowsingEntries"
  /\ entry_list_state # None
  /\ write_attempted(feeds, display_feeds, feed_index, entry_list_state[1], TRUE)
  /\ state' = "ViewingEntry"
  /\ lastOp' = "cache_write_failed"
  /\ UNCHANGED callVars
  /\ UNCHANGED <<show_error_popup, clock, fetchVars>>
  /\ UNCHANGED <<cache, feeds, display_feeds, feed_index, entry_list_state,
                 loading_state, current_feed, feed_errors>>

\* App::handle_key for the key 'm', the cache write returning an error:
\* toggle_selected_entry_read logs it and returns before sync_read_state.
handle_toggle_failed ==
  /\ ~show_error_popup
  /\ state \in {"BrowsingEntries", "ViewingEntry"}
  /\ entry_list_state # None
  /\ write_attempted(feeds, display_feeds, feed_index, entry_list_state[1], FALSE)
  /\ lastOp' = "cache_write_failed"
  /\ UNCHANGED callVars
  /\ UNCHANGED <<show_error_popup, clock, fetchVars>>
  /\ UNCHANGED <<cache, feeds, display_feeds, feed_index, entry_list_state, state,
                 loading_state, current_feed, feed_errors>>

FaultNext ==
  \/ Replace
  \/ UpdateFeed
  \/ handle_up
  \/ handle_down
  \/ handle_enter
  \/ handle_back
  \/ handle_toggle
  \/ handle_enter_failed
  \/ handle_toggle_failed

FaultSpec == Init /\ [][FaultNext]_vars

\* ------------------------------------------------------------------------
\* Fetch specification: one run of fetch_feed_with_progress over a list of
\* configured feeds, its tasks interleaved in every order; no message is
\* taken from the channel.
\* ------------------------------------------------------------------------

\* The lists of configured feeds handed to fetch_feed_with_progress: the
\* prefixes of the App's configuration followed by a third feed.
fetch_config ==
  feed_config \o << [link |-> "u3", name |-> Some("T3"), tags |-> None] >>

RunConfigs == { SubSeq(fetch_config, 1, n) : n \in 0..Len(fetch_config) }

FetchInit ==
  /\ App_new(init_schema)
  /\ \E config \in RunConfigs : runs = << spawn_run(config) >>
  /\ chan = <<>>
  /\ no_call

FetchNext ==
  \/ TaskFetchingFeed
  \/ TaskParsed
  \/ TaskFailed
  \/ Join
  \/ SendReplace
  \/ SendFetchComplete

FetchSpec == FetchInit /\ [][FetchNext]_vars

\* ------------------------------------------------------------------------
\* Refresh specification: the App started on a new database or on a cache
\* that holds every configured feed, the fetch started at launch, refresh
\* requests, the runs they start and the handling of the messages of the
\* channel in the order sent.
\* Restart specification: the same, the App started on any cache an earlier
\* session can leave.
\* ------------------------------------------------------------------------

\* The configured feeds that still need fetching at launch: those the cache
\* has no row for (FeedCache::has_feed).  The code of the launch is not in
\* src/src/main.rs, which is an earlier revision; this definition and launch
\* follow the specification (sections 1 and 4.1).
needs_fetching(c, config) ==
  SelectSeq(config, LAMBDA fc : feed_id_of(c, fc.link) = None)

\* The run started at launch (none when no feed needs fetching).
launch(c) ==
  IF needs_fetching(c, feed_config) = <<>> THEN <<>>
  ELSE << spawn_run(needs_fetching(c, feed_config)) >>

\* The caches an earlier session can leave: a new database, the first
\* configured feed alone (the second failed), both feeds.
PriorCaches ==
  { save_all(init_schema, batch, 0) :
      batch \in { <<>>,
                  << SampleFeed(feed_config[1]) >>,
                  << SampleFeed(feed_config[1]), SampleFeed(feed_config[2]) >> } }

\* The caches among them that hold no configured feed or all of them.
CompleteCaches ==
  { c \in PriorCaches :
      needs_fetching(c, feed_config) \in { <<>>, feed_config } }

RefreshInit ==
  \E c \in CompleteCaches :
    /\ App_new(c)
    /\ runs = launch(c)
    /\ chan = <<>>
    /\ no_call

RestartInit ==
  \E c \in PriorCaches :
    /\ App_new(c)
    /\ runs = launch(c)
    /\ chan = <<>>
    /\ no_call

RefreshNext ==
  \/ refresh_feeds
  \/ handle_errors_key
  \/ handle_key_popup
  \/ TaskFetchingFeed
  \/ TaskParsed
  \/ TaskFailed
  \/ Join
  \/ SendReplace
  \/ SendFetchComplete
  \/ ReplaceFromRun
  \/ FetchingFeed
  \/ FeedError
  \/ FetchComplete

RefreshSpec == RefreshInit /\ [][RefreshNext]_vars

RestartSpec == RestartInit /\ [][RefreshNext]_vars

\* ------------------------------------------------------------------------
\* Stale specification: the refresh specification, the App started on the
\* cache of an earlier session whose configuration had a third feed that
\* is no longer configured.
\* ------------------------------------------------------------------------

\* The cache left by a session that fetched the three feeds of fetch_config.
StaleCaches ==
  { save_all(init_schema,
             [k \in 1..Len(fetch_config) |-> SampleFeed(fetch_config[k])], 0) }

StaleInit ==
  \E c \in StaleCaches :
    /\ App_new(c)
    /\ runs = launch(c)
    /\ chan = <<>>
    /\ no_call

StaleSpec == StaleInit /\ [][RefreshNext]_vars

\* ------------------------------------------------------------------------
\* Drain specification: the App on a new database, a run of
\* fetch_feed_with_progress over a list of configured feeds (the empty list
\* included) and the consumer of the channel.  Every task that can take a
\* step eventually takes one (tokio runs every spawned task), every task
\* that was started ends, the orchestrator goes on when the task it awaits
\* has ended, and the consumer keeps taking the messages of the channel.
\* ------------------------------------------------------------------------

DrainInit ==
  /\ App_new(init_schema)
  /\ \E n \in 0..Len(feed_config) : runs = << spawn_run(SubSeq(feed_config, 1, n)) >>
  /\ chan = <<>>
  /\ no_call

DrainNext ==
  \/ TaskFetchingFeed
  \/ TaskParsed
  \/ TaskFailed
  \/ Join
  \/ SendReplace
  \/ SendFetchComplete
  \/ ReplaceFromRun
  \/ FetchingFeed
  \/ FeedError
  \/ FetchComplete

DrainFairness ==
  /\ WF_vars(TaskFetchingFeed)
  /\ WF_vars(TaskParsed \/ TaskFailed)
  /\ WF_vars(Join)
  /\ WF_vars(SendReplace)
  /\ WF_vars(SendFetchComplete)
  /\ WF_vars(ReplaceFromRun \/ FetchingFeed \/ FeedError \/ FetchComplete)

DrainSpec == DrainInit /\ [][DrainNext]_vars /\ DrainFairness

\* ------------------------------------------------------------------------
\* Query specification: one call of parse_query, of feed_matches for every
\* feed, or of apply_query, on a query string and a list of feeds.
\* ------------------------------------------------------------------------

\* The beginnings of the query strings: nothing, white space, "tags:" with
\* and without white space before it, and two prefixes of no known form.
QueryPrefixes ==
  { <<>>, <<" ">>, TagsPrefix, <<" ">> \o TagsPrefix,
    <<"t", "a", "g", ":">>, <<"x">> }

\* The query strings: a beginning followed by tag characters, commas, white
\* space and stars.
QueryStrings ==
  { pre \o body : pre \in QueryPrefixes,
                  body \in SeqsUpTo({"b", "c", ",", " ", "*"}, MaxQueryLen) }

\* The tags of a feed: none, the empty list, the tag b, the tags c and b,
\* the tag bc.
QueryTags ==
  { None, Some(<<>>), Some(<< <<"b">> >>), Some(<< <<"c">>, <<"b">> >>),
    Some(<< <<"b", "c">> >>) }

\* The entries of the feeds: dated 1, dated 2 and undated.
QueryEntries ==
  { Entry("a", Some(1), "x", <<>>, ""), Entry("b", Some(2), "x", <<>>, ""),
    Entry("c", None, "x", <<>>, "") }

\* The entry lists of the first feed: the entries in every order, none twice.
QueryEntryLists ==
  { es \in SeqsUpTo(QueryEntries, Cardinality(QueryEntries)) :
      \A i \in 1..Len(es), j \in 1..Len(es) : i # j => es[i] # es[j] }

\* The lists of feeds: no feed, one feed, or two feeds, the second with the
\* undated entry alone and either title.
QueryFeedLists ==
  LET firsts == { [url |-> "u1", title |-> "T1", entries |-> es, tags |-> t] :
                    es \in QueryEntryLists, t \in QueryTags }
      seconds == { [url |-> "u2", title |-> title,
                    entries |-> << Entry("c", None, "x", <<>>, "") >>, tags |-> t] :
                     title \in ParsedTitles, t \in QueryTags }
  IN  {<<>>} \cup { <<f>> : f \in firsts }
             \cup { <<f, g>> : f \in firsts, g \in seconds }

\* Three lists of feeds every query string is applied to; in the third,
\* entries of one feed and of two feeds have equal published values.
SampleFeedLists ==
  { << [url |-> "u1", title |-> "T1", tags |-> Some(<< <<"c">>, <<"b">> >>),
        entries |-> << Entry("a", Some(1), "x", <<>>, ""),
                       Entry("c", None, "x", <<>>, ""),
                       Entry("b", Some(2), "x", <<>>, "") >>],
       [url |-> "u2", title |-> "T2", tags |-> None,
        entries |-> << Entry("c", None, "x", <<>>, "") >>] >>,
    << [url |-> "u1", title |-> "T1", tags |-> Some(<< <<"b">> >>),
        entries |-> << Entry("c", None, "x", <<>>, ""),
                       Entry("a", Some(1), "x", <<>>, "") >>],
       [url |-> "u2", title |-> "T1", tags |-> Some(<< <<"b", "c">> >>),
        entries |-> << Entry("c", None, "x", <<>>, "") >>] >>,
    << [url |-> "u1", title |-> "T1", tags |-> Some(<< <<"b">> >>),
        entries |-> << Entry("c", None, "x", <<>>, ""),
                       Entry("a", Some(1), "x", <<>>, ""),
                       Entry("b", None, "x", <<>>, ""),
                       Entry("b", Some(1), "x", <<>>, "") >>],
       [url |-> "u2", title |-> "T2", tags |-> Some(<< <<"b">> >>),
        entries |-> << Entry("a", None, "x", <<>>, ""),
                       Entry("c", Some(1), "x", <<>>, "") >>] >> }

\* The query strings every list of feeds is queried with.
SampleQueries ==
  { <<>>, <<"*">>, <<"x">>, TagsPrefix, TagsPrefix \o <<"b">>,
    TagsPrefix \o <<"c", ",", "b">> }

\* The calls of the query engine.
QueryCalls ==
  { [feeds |-> fs, query |-> q] : fs \in SampleFeedLists, q \in QueryStrings }
    \cup { [feeds |-> fs, query |-> q] : fs \in QueryFeedLists, q \in SampleQueries }

QueryInit ==
  /\ App_new(init_schema)
  /\ runs = <<>>
  /\ chan = <<>>
  /\ \E call \in QueryCalls :
       /\ call_feeds = call.feeds
       /\ call_query = call.query
  /\ call_result = None

\* parse_query(query)
ParseQuery ==
  /\ call_result = None
  /\ call_result' = Some(parse_query(call_query))
  /\ lastOp' = "parse_query"
  /\ UNCHANGED <<cache, appVars, clock, fetchVars, call_feeds, call_query>>

\* feed_matches(feed, &filter) for every feed, as apply_query calls it.
FeedMatches ==
  /\ call_result = None
  /\ call_result' = Some([i \in 1..Len(call_feeds) |->
                            feed_matches(call_feeds[i], parse_query(call_query))])
  /\ lastOp' = "feed_matches"
  /\ UNCHANGED <<cache, appVars, clock, fetchVars, call_feeds, call_query>>

\* apply_query(feeds, query)
ApplyQuery ==
  /\ call_result = None
  /\ call_result' = Some(apply_query(call_feeds, call_query))
  /\ lastOp' = "apply_query"
  /\ UNCHANGED <<cache, appVars, clock, fetchVars, call_feeds, call_query>>

QueryNext ==
  \/ ParseQuery
  \/ FeedMatches
  \/ ApplyQuery

QuerySpec == QueryInit /\ [][QueryNext]_vars

\* ------------------------------------------------------------------------
\* Properties of the cache (checked under Spec)
\* ------------------------------------------------------------------------

\* The entry rows stored for a url in the cache c.
rows_of(c, url) ==
  IF feed_id_of(c, url) = None THEN {}
  ELSE { r \in c.entries : r.feed_id = feed_id_of(c, url)[1] }

\* Two (title, published) pairs name the same entry identity.
same_identity(t1, p1, t2, p2) == t1 = t2 /\ COALESCE(p1) = COALESCE(p2)

\* The feed f carries an entry with the identity (title, published).
carries(f, title, published) ==
  \E i \in 1..Len(f.entries) :
    same_identity(f.entries[i].title, f.entries[i].published, title, published)

\* Every result of load_feed(url) on c is a feed with an entry that has the
\* title, published value and read flag given.
loads_entry(c, url, title, published, read) ==
  \A loaded \in load_feed(c, url) :
    /\ loaded # None
    /\ \E j \in 1..Len(loaded[1].entries) :
         /\ loaded[1].entries[j].title = title
         /\ loaded[1].entries[j].published = published
         /\ loaded[1].entries[j].read = read

\* C1: a stored entry that is read is still returned as read by load_feed
\* after a save_feed for its url whose entry list carries an entry with the
\* same (title, published) identity, whatever the content of that entry.
C1_ReadSurvivesResave ==
  \A call \in SaveCalls :
    \A r \in rows_of(cache, call.feed.url) :
      (r.read = 1 /\ carries(call.feed, r.title, r.published))
        => loads_entry(save_feed(cache, call.feed, call.position), call.feed.url,
                       r.title, r.published, TRUE)

\* A save_feed has just updated the content of an entry that is read: the
\* undated entry "a" carries the content of the entry saved with published ''.
C1_Witness ==
  /\ lastOp = "save_feed"
  /\ \E r \in rows_of(cache, "u1") :
       r.title = "a" /\ r.published = None /\ r.text = "y" /\ r.read = 1

\* C2: no call of save_feed, mark_entry_read or mark_entry_unread removes a
\* stored entry: every identity stored for a url is returned by load_feed
\* after the call, and after a save_feed (whether or not its entry list
\* carries the identity, the empty list included) with the same read flag.
C2_HistoryRetained ==
  \A u \in Urls : \A r \in rows_of(cache, u) :
    /\ \A call \in SaveCalls :
         loads_entry(save_feed(cache, call.feed, call.position), u,
                     r.title, r.published, r.read # 0)
    /\ \A u2 \in Urls, t \in EntryTitles, p \in PublishedInputs :
         /\ \E read \in BOOLEAN :
              loads_entry(mark_entry_read(cache, u2, t, p), u, r.title, r.published, read)
         /\ \E read \in BOOLEAN :
              loads_entry(mark_entry_unread(cache, u2, t, p), u, r.title, r.published, read)

\* A save_feed has just been made for a feed that stores more entries than a
\* fetched entry list can carry, one of them read.
C2_Witness ==
  /\ lastOp = "save_feed"
  /\ Cardinality(rows_of(cache, "u1")) > MaxBatchLen
  /\ \E r \in rows_of(cache, "u1") : r.read = 1

\* C3: the id of the feeds row of a url never changes once it is assigned,
\* whatever is saved later for this url or for another one.
C3_FeedRowIdStable ==
  [][\A r \in cache.feeds :
       \E r2 \in cache'.feeds : r2.url = r.url /\ r2.id = r.id]_vars

\* A save_feed has just been made, the first row inserted carries the second
\* title and position, and both feeds have entries.
C3_Witness ==
  /\ lastOp = "save_feed"
  /\ \E r \in cache.feeds : r.id = 1 /\ r.title = "T2" /\ r.position = 1
  /\ \A u \in Urls : rows_of(cache, u) # {}

\* C4: no feed has two stored entries with the same title and the same
\* published value, an absent published value counting as ''.
C4_EntryIdentityUnique ==
  \A r1 \in cache.entries, r2 \in cache.entries :
    (r1.feed_id = r2.feed_id
       /\ same_identity(r1.title, r1.published, r2.title, r2.published))
      => r1 = r2

\* The entry stored with published '' carries the content of the undated
\* entry with the same title: saving the latter updated the stored row.
C4_Witness ==
  \E r \in rows_of(cache, "u1") :
    r.title = "a" /\ r.published = Some(EmptyStr) /\ r.text = "x"

\* C5: mark_entry_read(u, t, published) sets the read flag of the entry of
\* u with title t and exactly this published value (None matches the
\* undated entry only, Some(p) the entry dated p only) and leaves every
\* other row as it is.
C5_NullSafeMatch ==
  \A u \in Urls, t \in EntryTitles, p \in PublishedInputs :
    LET after == mark_entry_read(cache, u, t, p)
    IN  /\ \A r \in cache.entries :
             IF r \in rows_of(cache, u) /\ r.title = t /\ r.published = p
             THEN [r EXCEPT !.read = 1] \in after.entries
             ELSE r \in after.entries
        /\ Cardinality(after.entries) = Cardinality(cache.entries)

\* A mark_entry_read has just been made, the undated entry "a" is read and
\* the dated entry with the same title is not.
C5_Witness ==
  /\ lastOp = "mark_entry_read"
  /\ \E r1 \in rows_of(cache, "u1"), r2 \in rows_of(cache, "u1") :
       /\ r1.title = "a" /\ r1.published = None /\ r1.read = 1
       /\ r2.title = "a" /\ r2.published = Some(1) /\ r2.read = 0

\* The index of the last entry of f with the identity of its i-th entry.
last_with_identity(f, i) ==
  Max({ j \in 1..Len(f.entries) :
          same_identity(f.entries[j].title, f.entries[j].published,
                        f.entries[i].title, f.entries[i].published) })

\* C6: after save_feed(f), for every entry e of f exactly one stored entry
\* has the identity of e; load_feed returns it with the text, links and
\* media of the last entry of f with that identity; it is unread when the
\* identity was not stored before, and otherwise it is the row stored
\* before with nothing but text, links and media changed.
C6_LastWriterWins ==
  \A call \in SaveCalls :
    LET f == call.feed
        after == save_feed(cache, f, call.position)
    IN  \A i \in 1..Len(f.entries) :
          LET e == f.entries[i]
              last == f.entries[last_with_identity(f, i)]
              old == { r \in rows_of(cache, f.url) :
                         same_identity(r.title, r.published, e.title, e.published) }
              new == { r \in rows_of(after, f.url) :
                         same_identity(r.title, r.published, e.title, e.published) }
          IN  /\ Cardinality(new) = 1
              /\ \A r \in new :
                   /\ \A loaded \in load_feed(after, f.url) :
                        \E j \in 1..Len(loaded[1].entries) :
                          /\ loaded[1].entries[j].title = r.title
                          /\ loaded[1].entries[j].published = r.published
                          /\ loaded[1].entries[j].text = last.text
                          /\ loaded[1].entries[j].links = last.links
                          /\ loaded[1].entries[j].media = last.media
                   /\ old = {} => r.read = 0
                   /\ \A r0 \in old :
                        r = [r0 EXCEPT !.text = r.text, !.links = r.links,
                                       !.media = r.media]

\* A save_feed has just been made and the entry stored with published '' is
\* unread and carries the content of the undated entry saved after it.
C6_Witness ==
  /\ lastOp = "save_feed"
  /\ \E r \in rows_of(cache, "u1") :
       /\ r.title = "a" /\ r.published = Some(EmptyStr)
       /\ r.text = "x" /\ r.media = "" /\ r.read = 0

\* C7: mark_entry_read and mark_entry_unread are idempotent, change at most
\* one entry row and nothing of it but the read flag, change no feed row,
\* and leave the cache as it is when the url or the entry is not stored.
C7_IdempotentPointUpdate ==
  \A u \in Urls, t \in EntryTitles, p \in PublishedInputs :
    \A after \in { mark_entry_read(cache, u, t, p), mark_entry_unread(cache, u, t, p) } :
      LET value == IF after = mark_entry_read(cache, u, t, p) THEN 1 ELSE 0
          again == IF value = 1 THEN mark_entry_read(after, u, t, p)
                   ELSE mark_entry_unread(after, u, t, p)
          matched == { r \in rows_of(cache, u) : r.title = t /\ r.published = p }
      IN  /\ again = after
          /\ after.feeds = cache.feeds
          /\ Cardinality(matched) <= 1
          /\ after.entries = (cache.entries \ matched)
                                \cup { [r EXCEPT !.read = value] : r \in matched }
          /\ matched = {} => after = cache

\* A mark_entry_unread has just been made on a feed that stores an unread
\* entry next to a read one.
C7_Witness ==
  /\ lastOp = "mark_entry_unread"
  /\ \E r1 \in rows_of(cache, "u1"), r2 \in rows_of(cache, "u1") :
       r1.read = 0 /\ r2.read = 1 /\ r1.title = r2.title

\* ------------------------------------------------------------------------
\* Properties of the App (checked under AppSpec)
\* ------------------------------------------------------------------------

\* C8: App.feeds is what cache.load_all_feeds() returns: the same feeds in
\* the same order with the same entries and read flags.
C8_FeedsEqualCache == feeds \in load_all_feeds(cache)

C10_DisplayIsRebuild == display_feeds = build_display_feeds(feeds, query_config)

\* ------------------------------------------------------------------------
\* Properties of the read-state synchronisation (checked under AppSpec)
\* ------------------------------------------------------------------------

\* The indices of the valid (display feed, entry) selections, both from 0.
Selections ==
  UNION { { <<f, k>> : k \in 0..(Len(entries_of(display_feeds[f + 1])) - 1) } :
          f \in 0..(Len(display_feeds) - 1) }

\* The indices of the feeds of feeds_ that have the title ft and an entry
\* with exactly the given title and published value.
carriers(feeds_, ft, title, published) ==
  { i \in 1..Len(feeds_) :
      /\ feeds_[i].title = ft
      /\ find_entry(feeds_[i].entries, title, published) # None }

\* The feed the k-th entry of a query projection was cloned from: apply_query
\* clones the feeds in order and its sort is stable, so among the entries
\* with the same feed_title, title and published value the n-th one comes
\* from the n-th feed that has this title and carries this entry.
\* 0 when there is no such feed.
source_feed(feeds_, q_entries, k) ==
  LET e == q_entries[k]
      rank == Cardinality({ j \in 1..k :
                 /\ q_entries[j].feed_title = e.feed_title
                 /\ q_entries[j].title = e.title
                 /\ q_entries[j].published = e.published })
      from == carriers(feeds_, e.feed_title[1], e.title, e.published)
      nth == { i \in from : Cardinality({ i2 \in from : i2 <= i }) = rank }
  IN  IF nth = {} THEN 0 ELSE CHOOSE i \in nth : TRUE

\* The read flag of the entry (title, published) of a feed.
read_of(feed, title, published) ==
  feed.entries[find_entry(feed.entries, title, published)[1]].read

\* C11: when a key press changes the read flag of the selected entry, then
\* (a) if the entry is selected in a Query projection, the entry of the feed
\* it was cloned from has the new flag in App.feeds and in the Regular
\* projection of that feed; (b) if it is selected in a Regular projection,
\* every Query entry cloned from it has the new flag.
C11_CrossProjectionSync ==
  [][(/\ lastOp' = "handle_key"
      /\ entry_list_state # None
      /\ selected_entry(display_feeds, feed_index, entry_list_state[1]) # None
      /\ selected_entry(display_feeds', feed_index, entry_list_state[1])[1].read
           # selected_entry(display_feeds, feed_index, entry_list_state[1])[1].read)
     => LET e == selected_entry(display_feeds, feed_index, entry_list_state[1])[1]
            v == ~e.read
            df == display_feeds[feed_index + 1]
        IN  IF df.kind = "Query"
            THEN LET src == source_feed(feeds, df.entries, entry_list_state[1] + 1)
                 IN  /\ src # 0
                     /\ read_of(feeds'[src], e.title, e.published) = v
                     /\ \A d \in 1..Len(display_feeds') :
                          (display_feeds'[d].kind = "Regular"
                             /\ display_feeds'[d].feed.url = feeds[src].url)
                            => read_of(display_feeds'[d].feed, e.title, e.published) = v
            ELSE \A d \in 1..Len(display_feeds') :
                   display_feeds'[d].kind = "Query" =>
                     \A k \in 1..Len(display_feeds'[d].entries) :
                       (/\ source_feed(feeds, display_feeds[d].entries, k) # 0
                        /\ feeds[source_feed(feeds, display_feeds[d].entries, k)].url
                             = df.feed.url
                        /\ display_feeds[d].entries[k].title = e.title
                        /\ display_feeds[d].entries[k].published = e.published)
                         => display_feeds'[d].entries[k].read = v]_vars

\* C12: every entry of every Query projection is the stamped copy of an
\* entry of exactly one feed of App.feeds, and the first feed that has the
\* entry's feed_title (the feed a read-state action writes to) is that feed.
C12_QueryEntryOwner ==
  \A d \in 1..Len(display_feeds) :
    display_feeds[d].kind = "Query" =>
      \A k \in 1..Len(display_feeds[d].entries) :
        LET e == display_feeds[d].entries[k]
            copies == { i \in 1..Len(feeds) :
                          \E j \in 1..Len(feeds[i].entries) :
                            [feeds[i].entries[j] EXCEPT
                               !.feed_title = Some(feeds[i].title)] = e }
            src == source_feed(feeds, display_feeds[d].entries, k)
        IN  /\ Cardinality(copies) = 1
            /\ src \in copies
            /\ first_of({ i \in 1..Len(feeds) : feeds[i].title = e.feed_title[1] })
                 = Some(src)

\* C14: mark_selected_entry_read on a selected entry that is read changes
\* neither the cache nor App.feeds nor display_feeds, and on any selected
\* entry a second call leaves the state the first call gave.
C14_MarkReadIdempotent ==
  \A sel \in Selections :
    LET once == mark_selected_entry_read(cache, feeds, display_feeds, sel[1], sel[2])
        twice == mark_selected_entry_read(once.cache, once.feeds, once.display_feeds,
                                          sel[1], sel[2])
    IN  /\ selected_entry(display_feeds, sel[1], sel[2])[1].read =>
             once = [cache |-> cache, feeds |-> feeds, display_feeds |-> display_feeds]
        /\ twice = once
        /\ selected_entry(once.display_feeds, sel[1], sel[2])[1].read

\* An Enter has just marked an entry read through the Query projection while
\* another entry of the same feed stays unread.
C14_Witness ==
  /\ lastOp = "handle_key"
  /\ state = "ViewingEntry"
  /\ feed_index = 0
  /\ entry_list_state # None
  /\ selected_entry(display_feeds, feed_index, entry_list_state[1]) # None
  /\ selected_entry(display_feeds, feed_index, entry_list_state[1])[1].read
  /\ \E r \in cache.entries : r.read = 1
  /\ \E r \in cache.entries : r.read = 0

\* The url of the feed a selected entry belongs to: the feed of a Regular
\* projection, the feed a Query entry was cloned from (None: no such feed).
true_owner_url(feeds_, display_feeds_, f, k) ==
  LET df == display_feeds_[f + 1]
  IN  IF df.kind = "Regular" THEN Some(df.feed.url)
      ELSE LET src == source_feed(feeds_, df.entries, k + 1)
           IN  IF src = 0 THEN None ELSE Some(feeds_[src].url)

\* C15: toggle_selected_entry_read on a selected entry stores the negation
\* of the entry's in-memory flag for that entry in the cache, and a second
\* toggle of the same selection gives back the cache, App.feeds and
\* display_feeds as they were.
C15_ToggleInvolution ==
  \A sel \in Selections :
    LET e == selected_entry(display_feeds, sel[1], sel[2])[1]
        once == toggle_selected_entry_read(cache, feeds, display_feeds, sel[1], sel[2])
        twice == toggle_selected_entry_read(once.cache, once.feeds, once.display_feeds,
                                            sel[1], sel[2])
        owner == true_owner_url(feeds, display_feeds, sel[1], sel[2])
    IN  /\ owner # None
        /\ \E r \in rows_of(once.cache, owner[1]) :
             /\ r.title = e.title /\ r.published = e.published
             /\ r.read = (IF e.read THEN 0 ELSE 1)
        /\ twice = [cache |-> cache, feeds |-> feeds, display_feeds |-> display_feeds]

\* ------------------------------------------------------------------------
\* Properties of a failing cache write (checked under FaultSpec)
\* ------------------------------------------------------------------------

\* C13: when the cache write of a read-state change returns an error, the
\* selected entry has the new read value (the negation of the old one) in
\* display_feeds after the handler.
C13_MemoryUpdatedOnWriteError ==
  [][lastOp' = "cache_write_failed" =>
       selected_entry(display_feeds', feed_index, entry_list_state[1])[1].read
         = ~selected_entry(display_feeds, feed_index, entry_list_state[1])[1].read]_vars

\* ------------------------------------------------------------------------
\* Properties of a run of fetch_feed_with_progress (checked under FetchSpec,
\* where chan holds every message the run has sent, in the order sent)
\* ------------------------------------------------------------------------

\* The positions of the messages of a type in the channel.
sent(type) == { i \in 1..Len(chan) : chan[i].type = type }

\* The positions of the messages of a type that carry a feed name.
sent_for(type, name) == { i \in sent(type) : chan[i].name = name }

\* The feeds of the tasks that ended with Some(feed), in the order of the
\* configuration.
RECURSIVE successes(_, _)
successes(result, k) ==
  IF k > Len(result) THEN <<>>
  ELSE (IF result[k] = None THEN <<>> ELSE << result[k][1] >>)
       \o successes(result, k + 1)

\* C16: the run sends at most one Replace and at most one FetchComplete, and
\* exactly one of each once it has ended; a FetchComplete comes after the
\* Replace; when the Replace is sent every task has ended, and no
\* FetchingFeed or FeedError follows the Replace; the run ends only after
\* both are sent.
C16_ReplaceThenComplete ==
  /\ Cardinality(sent("Replace")) <= 1
  /\ Cardinality(sent("FetchComplete")) <= 1
  /\ \A j \in sent("FetchComplete") : \E i \in sent("Replace") : i < j
  /\ \A i \in sent("Replace") :
       /\ \A k \in DOMAIN runs[1].pc : runs[1].pc[k] = "done"
       /\ \A j \in sent("FetchingFeed") \cup sent("FeedError") : j < i
  /\ runs[1].stage = "complete_sent" =>
       Cardinality(sent("Replace")) = 1 /\ Cardinality(sent("FetchComplete")) = 1
  /\ (~ENABLED FetchNext) => runs[1].stage = "complete_sent"

\* A run over three feeds has ended, the task of the first feed having
\* ended (with an error) after the two others.
C16_Witness ==
  /\ runs[1].stage = "complete_sent"
  /\ Len(runs[1].pc) = 3
  /\ \E i \in sent_for("FeedError", "T1") :
       \A j \in sent("FetchingFeed") \cup sent("FeedError") : j <= i

\* C17: for every task that has ended, exactly one FeedError carries the
\* name of its feed when it ended with None and none when it ended with
\* Some(feed); the batch of the Replace is the list of the feeds of the
\* tasks that ended with Some(feed), in the order of the configuration;
\* every FeedError comes before the FetchComplete.
C17_PartialFailureBatch ==
  /\ \A k \in DOMAIN runs[1].pc :
       LET name == IF runs[1].feeds[k].name # None THEN runs[1].feeds[k].name[1]
                   ELSE runs[1].feeds[k].link
       IN  /\ runs[1].pc[k] # "done" => sent_for("FeedError", name) = {}
           /\ runs[1].pc[k] = "done" =>
                Cardinality(sent_for("FeedError", name))
                  = (IF runs[1].result[k] = None THEN 1 ELSE 0)
  /\ \A i \in sent("Replace") : chan[i].feeds = successes(runs[1].result, 1)
  /\ \A i \in sent("Replace") :
       \A f \in 1..Len(chan[i].feeds) :
         \E k \in DOMAIN runs[1].pc :
           /\ chan[i].feeds[f].url = runs[1].feeds[k].link
           /\ runs[1].result[k] = Some(chan[i].feeds[f])
  /\ \A j \in sent("FetchComplete") : \A i \in sent("FeedError") : i < j

\* A run over three feeds has ended: the first feed failed, the batch holds
\* the two others and one FeedError was sent.
C17_Witness ==
  /\ runs[1].stage = "complete_sent"
  /\ Len(runs[1].pc) = 3
  /\ runs[1].result[1] = None
  /\ Cardinality(sent("FeedError")) = 1
  /\ \E i \in sent("Replace") :
       /\ Len(chan[i].feeds) = 2
       /\ chan[i].feeds[1].url = "u2"
       /\ chan[i].feeds[2].url = "u3"

\* C18: a task that has not started has sent no message; a task that has
\* started has sent exactly one FetchingFeed, carrying the configured name
\* of its feed or else its link, and every FeedError for the feed comes
\* after it; a task that ended with Some(feed) has sent no FeedError.
C18_FetchingFeedFirst ==
  \A k \in DOMAIN runs[1].pc :
    LET fc == runs[1].feeds[k]
        name == IF fc.name # None THEN fc.name[1] ELSE fc.link
        mine == { i \in 1..Len(chan) :
                    chan[i].type \in {"FetchingFeed", "FeedError"}
                    /\ chan[i].name \in {name, fc.link} }
    IN  /\ runs[1].pc[k] = "spawned" => mine = {}
        /\ runs[1].pc[k] # "spawned" =>
             /\ Cardinality(sent_for("FetchingFeed", name)) = 1
             /\ \A i \in sent_for("FetchingFeed", name) :
                  \A j \in mine : j >= i
        /\ runs[1].pc[k] = "fetching" => Cardinality(mine) = 1
        /\ (runs[1].pc[k] = "done" /\ runs[1].result[k] # None) =>
             Cardinality(mine) = 1

\* The feed without a configured name has been announced by its link, has
\* failed, and the feed with a configured name has been fetched and parsed.
C18_Witness ==
  /\ Len(runs[1].pc) >= 2
  /\ sent_for("FetchingFeed", "u2") # {}
  /\ sent_for("FeedError", "u2") # {}
  /\ runs[1].pc[1] = "done"
  /\ runs[1].result[1] # None
  /\ sent_for("FetchingFeed", "T1") # {}

\* ------------------------------------------------------------------------
\* Properties of refresh_feeds (checked under RefreshSpec and RestartSpec)
\* ------------------------------------------------------------------------

\* C19: a refresh request made while loading_state.is_loading is true
\* changes no field of the App (feed_errors, show_error_popup and the
\* loading start time included), starts no run and sends nothing; and a run
\* is started only by a refresh request made while is_loading is false, so
\* a refused request is never run later.
C19_RefreshRefusedWhileLoading ==
  [][/\ (loading_state.is_loading /\ lastOp' = "refresh_feeds")
          => UNCHANGED <<cache, appVars, clock, fetchVars>>
     /\ Len(runs') > Len(runs)
          => (~loading_state.is_loading /\ lastOp' = "refresh_feeds")]_vars

\* A refresh request has just been refused: a run is in flight, errors of
\* this run are recorded and messages wait in the channel.
C19_Witness ==
  /\ lastOp = "refresh_feeds"
  /\ loading_state.is_loading
  /\ loading_state.start_time > 0
  /\ feed_errors # <<>>
  /\ chan # <<>>
  /\ \E r \in DOMAIN runs : in_flight(runs[r])

\* C20: at most one run of fetch_feed_with_progress is in flight (started
\* and its FetchComplete not yet handled).
C20_OneRunInFlight ==
  Cardinality({ r \in DOMAIN runs : in_flight(runs[r]) }) <= 1

\* ------------------------------------------------------------------------
\* Properties of the feed-update handlers during a refresh
\* ------------------------------------------------------------------------

\* C21: from the start of a fetch by refresh_feeds until the FetchComplete
\* of that fetch is handled is_loading is true: handling Replace,
\* UpdateFeed, FetchingFeed or FeedError leaves the flag as it is, and the
\* flag is cleared only by handling a FetchComplete after which no run is
\* in flight.
C21_LoadingUntilComplete ==
  [][/\ lastOp' \in {"Replace", "UpdateFeed", "FetchingFeed", "FeedError"}
          => loading_state'.is_loading = loading_state.is_loading
     /\ (loading_state.is_loading /\ ~loading_state'.is_loading)
          => /\ lastOp' = "FetchComplete"
             /\ \A r \in DOMAIN runs' : ~in_flight(runs'[r])]_vars

\* The entries of a feed, whatever their order.
entry_set(f) == { f.entries[j] : j \in 1..Len(f.entries) }

C23_OnlyConsumerWrites ==
  [][/\ lastOp' \in {"task", "orchestrator"} => UNCHANGED <<cache, appVars, clock>>
     /\ lastOp' \in {"FetchingFeed", "FeedError", "FetchComplete"} => cache' = cache
     /\ cache' # cache => lastOp' \in {"Replace", "UpdateFeed"}]_vars

\* A task of a second run has just ended with a parsed feed while the cache
\* holds the feeds of the first run and App.feeds shows them.
C23_Witness ==
  /\ lastOp = "task"
  /\ cache.feeds # {}
  /\ feeds # <<>>
  /\ \E r \in DOMAIN runs :
       /\ in_flight(runs[r])
       /\ \E k \in DOMAIN runs[r].result : runs[r].result[k] # None

\* C24: every run that is started is eventually followed by the handling
\* of its FetchComplete, whichever of its fetches failed (all of them and
\* the empty feed list included); when a FetchComplete has been handled
\* is_loading is false and current_feed is None.
C24_EveryRefreshCompletes ==
  /\ \A r \in 1..MaxRuns :
       (r \in DOMAIN runs /\ in_flight(runs[r]))
         ~> (r \in DOMAIN runs /\ ~in_flight(runs[r]))
  /\ [][lastOp' = "FetchComplete"
          => (~loading_state'.is_loading /\ current_feed' = None)]_vars

\* The FetchComplete of a run over two feeds that both failed has just
\* been handled: two errors are recorded and no feed is stored.
C24_Witness ==
  /\ lastOp = "FetchComplete"
  /\ Len(feed_errors) = 2
  /\ feeds = <<>>
  /\ ~loading_state.is_loading
  /\ current_feed = None
  /\ \A r \in DOMAIN runs : ~in_flight(runs[r])

\* The index of a url in the configured feed list.
config_index(url) == CHOOSE k \in 1..Len(feed_config) : feed_config[k].link = url

\* C25: load_all_feeds returns the feeds in the order of the configured
\* feed list, after every sequence of refreshes, those in which some
\* configured feeds failed included.
C25_ConfiguredOrder ==
  \A loaded \in load_all_feeds(cache) :
    \A i \in 1..Len(loaded), j \in 1..Len(loaded) :
      i < j => config_index(loaded[i].url) < config_index(loaded[j].url)

\* ------------------------------------------------------------------------
\* Properties of the order of the entries
\* ------------------------------------------------------------------------

\* The entries are in the order of published descending, the undated ones
\* after all the dated ones.
newest_first(entries) ==
  \A i \in 1..Len(entries), j \in 1..Len(entries) :
    i < j =>
      /\ entries[i].published = None => entries[j].published = None
      /\ (entries[i].published # None /\ entries[j].published # None)
           => entries[i].published[1] >= entries[j].published[1]

\* C26: load_feed and load_all_feeds return the entries of each feed in the
\* order of published descending, the undated entries after all the dated
\* ones.
C26_LoadedNewestFirst ==
  /\ \A u \in Urls : \A loaded \in load_feed(cache, u) :
       loaded # None => newest_first(loaded[1].entries)
  /\ \A loaded \in load_all_feeds(cache) :
       \A i \in 1..Len(loaded) : newest_first(loaded[i].entries)

\* A feed stores an undated entry, an entry dated '' and an entry with a
\* later date.
C26_Witness ==
  \E r1 \in rows_of(cache, "u1"), r2 \in rows_of(cache, "u1"),
     r3 \in rows_of(cache, "u1") :
    /\ r1.published = None
    /\ r2.published = Some(EmptyStr)
    /\ r3.published # None /\ r3.published[1] > EmptyStr

\* ------------------------------------------------------------------------
\* Properties of the query engine (checked under QuerySpec)
\* ------------------------------------------------------------------------

\* The positions of the commas of a string, with a position before its
\* first character and one behind its last.
comma_positions(str) ==
  {0, Len(str) + 1} \cup { i \in 1..Len(str) : str[i] = "," }

\* The characters of str from lo to hi without the white space at both ends.
between(str, lo, hi) ==
  LET inked == { i \in lo..hi : str[i] # " " }
  IN  IF inked = {} THEN <<>> ELSE SubSeq(str, Min(inked), Max(inked))

\* The tokens of a comma-separated list from the comma position p on: the
\* text between two neighbouring commas, without the white space around it,
\* when it is not empty.
RECURSIVE tokens_from(_, _)
tokens_from(str, p) ==
  IF p > Len(str) THEN <<>>
  ELSE LET q == Min({ c \in comma_positions(str) : c > p })
           token == between(str, p + 1, q - 1)
       IN  (IF token = <<>> THEN <<>> ELSE <<token>>) \o tokens_from(str, q)

\* The string begins with "tags:".
has_tags_prefix(str) ==
  Len(str) >= Len(TagsPrefix) /\ \A i \in 1..Len(TagsPrefix) : str[i] = TagsPrefix[i]

\* The string behind the "tags:" it begins with.
after_tags_prefix(str) == SubSeq(str, Len(TagsPrefix) + 1, Len(str))

\* The string is neither empty, nor "*", nor "tags:" followed by a list
\* with a token.
no_known_form(str) ==
  /\ str # <<>>
  /\ str # <<"*">>
  /\ has_tags_prefix(str) => tokens_from(after_tags_prefix(str), 0) = <<>>

\* C27 as stated: for every query string that is neither empty, nor "*",
\* nor "tags:" followed by a list with a token, apply_query returns the
\* empty list, whatever the feeds.
C27_FailClosed ==
  (lastOp = "apply_query" /\ no_known_form(call_query))
    => call_result = Some(<<>>)

\* C27, amended: for every query string that, without the white space at
\* its ends, is neither empty, nor "*", nor "tags:" followed by a list with
\* a token, apply_query returns the empty list, whatever the feeds.
C27_FailClosedTrimmed ==
  (lastOp = "apply_query" /\ no_known_form(between(call_query, 1, Len(call_query))))
    => call_result = Some(<<>>)

\* apply_query has returned the empty list for the query "tag:b" on two
\* feeds with entries, the first tagged b.
C27_Witness ==
  /\ lastOp = "apply_query"
  /\ call_query = <<"t", "a", "g", ":", "b">>
  /\ Len(call_feeds) = 2
  /\ call_feeds[1].tags = Some(<< <<"c">>, <<"b">> >>)
  /\ call_feeds[1].entries # <<>>
  /\ call_result = Some(<<>>)

\* The feed and the filter have a tag in common, or the filter is match-all.
shares_tag(feed, filter) ==
  \/ filter.kind = "All"
  \/ /\ feed.tags # None
     /\ { feed.tags[1][j] : j \in 1..Len(feed.tags[1]) }
          \cap { filter.tags[i] : i \in 1..Len(filter.tags) } # {}

\* The (feed, entry) positions of the entries of the feeds that share a tag
\* with the filter.
entries_of_matching(feeds_, filter) ==
  UNION { { <<i, j>> : j \in 1..Len(feeds_[i].entries) } :
            i \in { k \in 1..Len(feeds_) : shares_tag(feeds_[k], filter) } }

\* The entry at a (feed, entry) position, as apply_query returns it.
stamped(feeds_, ij) ==
  [feeds_[ij[1]].entries[ij[2]] EXCEPT !.feed_title = Some(feeds_[ij[1]].title)]

\* C28: feed_matches is true of a feed and a tag filter iff they have a tag
\* in common (never for a feed without tags, never for the empty filter)
\* and of every feed for match-all; apply_query returns the entries of the
\* feeds that match, each as many times as the matching feeds carry it and
\* no other entry.
C28_MatchingFeedsEntries ==
  LET filter == parse_query(call_query)
      expected == entries_of_matching(call_feeds, filter)
  IN  /\ lastOp = "feed_matches" =>
           \A i \in 1..Len(call_feeds) :
             call_result[1][i] = shares_tag(call_feeds[i], filter)
      /\ lastOp = "apply_query" =>
           /\ Len(call_result[1]) = Cardinality(expected)
           /\ \A ij \in expected :
                Cardinality({ k \in 1..Len(call_result[1]) :
                                call_result[1][k] = stamped(call_feeds, ij) })
                  = Cardinality({ x \in expected :
                                    stamped(call_feeds, x) = stamped(call_feeds, ij) })

\* apply_query has returned, for the query "tags:c,b", the three entries of
\* a feed tagged b and twice the entry two feeds with the same title carry.
C28_Witness ==
  /\ lastOp = "apply_query"
  /\ call_query = TagsPrefix \o <<"c", ",", "b">>
  /\ Len(call_feeds) = 2
  /\ call_feeds[1].tags = Some(<< <<"b">> >>)
  /\ call_feeds[2].tags = Some(<< <<"c">>, <<"b">> >>)
  /\ call_feeds[1].title = call_feeds[2].title
  /\ Len(call_feeds[1].entries) = 3
  /\ Len(call_result[1]) = 4

\* C29: apply_query returns the entries in the order of published
\* descending, every dated entry before every undated one.
C29_QueryNewestFirst ==
  lastOp = "apply_query" => newest_first(call_result[1])

\* C30: parse_query maps the empty string and "*" to match-all, and "tags:"
\* followed by a comma-separated list to the tag filter of the tokens of
\* the list, without the white space around them, the empty ones dropped,
\* in their order.
C30_ParseQueryForms ==
  lastOp = "parse_query" =>
    /\ call_query \in { <<>>, <<"*">> } => call_result = Some(All)
    /\ has_tags_prefix(call_query) =>
         call_result = Some(Tags(tokens_from(after_tags_prefix(call_query), 0)))

\* parse_query has returned the filter of the tags b and c for "tags:b,c".
C30_Witness ==
  /\ lastOp = "parse_query"
  /\ call_query = TagsPrefix \o <<"b", ",", "c">>
  /\ call_result = Some(Tags(<< <<"b">>, <<"c">> >>))

\* The entries of the feeds that share a tag with the filter, in the order
\* of iteration: feed after feed, each entry with the title of its feed.
RECURSIVE iteration(_, _)
iteration(feeds_, filter) ==
  IF feeds_ = <<>> THEN <<>>
  ELSE (IF shares_tag(Head(feeds_), filter)
        THEN [j \in 1..Len(Head(feeds_).entries) |->
                [Head(feeds_).entries[j] EXCEPT !.feed_title = Some(Head(feeds_).title)]]
        ELSE <<>>)
       \o iteration(Tail(feeds_), filter)

\* The entries of a list with a published value, in their order.
RECURSIVE published_at(_, _)
published_at(entries, published) ==
  IF entries = <<>> THEN <<>>
  ELSE (IF Head(entries).published = published THEN <<Head(entries)>> ELSE <<>>)
       \o published_at(Tail(entries), published)

\* C31: in the result of apply_query the entries with the same published
\* value (the undated ones among them) are in the order of iteration: the
\* entries of an earlier feed before those of a later feed, the entries of
\* a feed in their order in the feed.
C31_StableOrder ==
  lastOp = "apply_query" =>
    LET iterated == iteration(call_feeds, parse_query(call_query))
    IN  \A k \in 1..Len(iterated) :
          published_at(call_result[1], iterated[k].published)
            = published_at(iterated, iterated[k].published)

\* apply_query has returned, for "tags:b", three undated entries, the two
\* of the first feed in their order before the one of the second feed, and
\* three entries with the same date in the same way.
C31_Witness ==
  /\ lastOp = "apply_query"
  /\ call_query = TagsPrefix \o <<"b">>
  /\ Len(call_feeds) = 2
  /\ Len(call_feeds[1].entries) = 4
  /\ Len(call_result[1]) = 6
  /\ \E k \in 1..4 :
       /\ call_result[1][k].title = "c" /\ call_result[1][k].published = None
       /\ call_result[1][k + 1].title = "b" /\ call_result[1][k + 1].published = None
       /\ call_result[1][k + 2].title = "a" /\ call_result[1][k + 2].published = None

\* ------------------------------------------------------------------------
\* More properties of a run of fetch_feed_with_progress (checked under
\* FetchSpec)
\* ------------------------------------------------------------------------

\* C32: the feeds of the Replace batch are the feeds of the tasks that
\* ended with Some(feed), each once, in the order of the configured feed
\* list, in whatever order the tasks ran.
C32_BatchInConfiguredOrder ==
  \A i \in sent("Replace") :
    LET batch == chan[i].feeds
        configured(f) == CHOOSE k \in DOMAIN runs[1].feeds :
                           runs[1].feeds[k].link = batch[f].url
    IN  /\ \A f \in 1..Len(batch), g \in 1..Len(batch) :
             f < g => configured(f) < configured(g)
        /\ { batch[f].url : f \in 1..Len(batch) }
             = { runs[1].feeds[k].link :
                   k \in { x \in DOMAIN runs[1].result : runs[1].result[x] # None } }

\* A run over three feeds has ended with a batch of the three feeds, the
\* first in front, although the task of the third feed started first and
\* the task of the first feed last.
C32_Witness ==
  /\ runs[1].stage = "complete_sent"
  /\ \E i \in sent("Replace") :
       /\ Len(chan[i].feeds) = 3
       /\ chan[i].feeds[1].url = "u1"
  /\ \E a \in sent_for("FetchingFeed", "T3"), b \in sent_for("FetchingFeed", "u2"),
        c \in sent_for("FetchingFeed", "T1") : a < b /\ b < c

\* ------------------------------------------------------------------------
\* Properties of UpdateFeed and of the selection (checked under AppSpec)
\* ------------------------------------------------------------------------

\* Every configured feed is in App.feeds, so that every UpdateFeed is for a
\* url of App.feeds.
all_configured_known ==
  \A k \in 1..Len(feed_config) :
    \E i \in 1..Len(feeds) : feeds[i].url = feed_config[k].link

configured_urls == { feed_config[k].link : k \in 1..Len(feed_config) }

\* C34: when a Replace has just been handled every feed of App.feeds, and
\* every Regular feed of display_feeds, has the url of a configured feed.
C34_OnlyConfiguredFeeds ==
  lastOp = "Replace" =>
    /\ \A i \in 1..Len(feeds) : feeds[i].url \in configured_urls
    /\ \A d \in 1..Len(display_feeds) :
         display_feeds[d].kind = "Regular"
           => display_feeds[d].feed.url \in configured_urls

\* C35: a call of save_feed that returns an error leaves the cache as it
\* was before the call.
C35_FailedSaveLeavesCache ==
  [][lastOp' = "save_feed_failed" => cache' = cache]_vars

\* ------------------------------------------------------------------------
\* Properties of the error records and of the loading flag
\* ------------------------------------------------------------------------

\* The feeds of a run whose task ended with None and that are displayed
\* under name.
failed_as(run, name) ==
  { k \in DOMAIN run.result :
      run.result[k] = None /\ display_name(run.feeds[k]) = name }

\* The records of feed_errors for name.
records_for(errors, name) ==
  { i \in 1..Len(errors) : errors[i].name = name }

\* C36: when the FetchComplete of a run over the whole configuration (every
\* run started by refresh_feeds is one) has been handled, feed_errors holds
\* one record for each feed that failed in that run and no other record
\* (none of an earlier run).
C36_ErrorsOfThisRefresh ==
  [][(lastOp' = "FetchComplete" /\ runs[Head(chan).run].feeds = feed_config) =>
       LET run == runs[Head(chan).run]
       IN  /\ Len(feed_errors')
                = Cardinality({ k \in DOMAIN run.result : run.result[k] = None })
           /\ \A k \in DOMAIN run.feeds :
                Cardinality(records_for(feed_errors', display_name(run.feeds[k])))
                  = Cardinality(failed_as(run, display_name(run.feeds[k])))]_vars

\* No run is in flight and no FetchComplete waits in the channel.
idle(runs_, chan_) ==
  /\ \A r \in DOMAIN runs_ : ~in_flight(runs_[r])
  /\ \A i \in 1..Len(chan_) : chan_[i].type # "FetchComplete"

C38_PopupNeedsErrors ==
  /\ [](show_error_popup => feed_errors # <<>>)
  /\ [][/\ (~show_error_popup /\ show_error_popup')
             => (lastOp' = "handle_key" /\ feed_errors # <<>>
                 /\ feed_errors' = feed_errors)
        /\ lastOp' = "refresh_feeds"
             => (~show_error_popup /\ ~show_error_popup'
                 /\ feed_errors' \in {<<>>, feed_errors})
        /\ lastOp' # "refresh_feeds"
             => (Len(feed_errors') >= Len(feed_errors)
                 /\ SubSeq(feed_errors', 1, Len(feed_errors)) = feed_errors)]_vars

\* The popup has just been opened on the errors of two failed feeds.
C38_Witness ==
  /\ lastOp = "handle_key"
  /\ show_error_popup
  /\ Len(feed_errors) = 2

\* ------------------------------------------------------------------------
\* Properties of the selection
\* ------------------------------------------------------------------------

\* C39: in BrowsingEntries and in ViewingEntry feed_index is an index of
\* display_feeds and the selected entry index is an index of the entries of
\* that display feed, after every sequence of key presses and feed updates
\* (so ViewingEntry is entered only on an entry that exists).
C39_SelectionInBounds ==
  state \in {"BrowsingEntries", "ViewingEntry"} =>
    /\ feed_index < Len(display_feeds)
    /\ entry_list_state # None
    /\ entry_list_state[1] < Len(entries_of(display_feeds[feed_index + 1]))

====
